---- MODULE Spec2Model ----
(***************************************************************************)
(* Model of idp_common/agents/error_analyzer/tools/cloudwatch_tool.py:     *)
(* the document log search cloudwatch_document_logs, its helpers and the   *)
(* window arithmetic it performs on datetime / timedelta values.           *)
(*                                                                         *)
(* One run of cloudwatch_document_logs is a sequence of steps, one per     *)
(* remote call; the tracking store, the stack metadata, the trace store    *)
(* and the log store answer nondeterministically from small sets.          *)
(***************************************************************************)
EXTENDS Integers, Sequences, FiniteSets, TLC

\* ------------------------------------------------------------------------
\* Bounds of the model
\* ------------------------------------------------------------------------
\* log groups the log store can list for the prefix
MaxGroups == 3
\* entries of the trace map returned by the trace store
MaxTrace == 4
\* raw events in one answer of filter_log_events, when a single call of
\* _search_cloudwatch_logs is examined
MaxRaw == 3
\* max_events of that call
MaxEvents == 3

\* ------------------------------------------------------------------------
\* datetime / timedelta arithmetic (microsecond resolution, as in Python)
\* A datetime is [s, us] counted from the model's epoch, a timedelta is
\* [s, us] with 0 <= us < 10^6 and s possibly negative (Python normalises
\* timedelta(days, seconds, microseconds) the same way).
\* ------------------------------------------------------------------------
Million == 1000 * 1000

Norm(s, us) == [s |-> s + (us \div Million), us |-> us % Million]

\* datetime - datetime -> timedelta
DtDiff(a, b) == Norm(a.s - b.s, a.us - b.us)

\* datetime + timedelta, datetime - timedelta
DtPlus(a, d) == Norm(a.s + d.s, a.us + d.us)
DtMinus(a, d) == Norm(a.s - d.s, a.us - d.us)

TdLess(a, b) == a.s < b.s \/ (a.s = b.s /\ a.us < b.us)

\* Python's min(a, b): b only when b < a
TdMin(a, b) == IF TdLess(b, a) THEN b ELSE a

\* timedelta(minutes=2)
TwoMinutes == [s |-> 120, us |-> 0]

\* timedelta(hours=hours_back) with the default hours_back = 24
HoursBackDefault == 24
Lookback == [s |-> HoursBackDefault * 3600, us |-> 0]

\* timedelta * 0.1: the total of microseconds times the float 0.1 (which is
\* slightly larger than 1/10), rounded to the nearest microsecond; an exact
\* half therefore rounds away from zero.
TdMulTenth(d) ==
    LET q == d.s \div 10
        rest == (d.s % 10) * Million + d.us
        m == rest \div 10
        r == rest % 10
        up == IF r > 5 \/ (r = 5 /\ d.s >= 0) THEN 1 ELSE 0
    IN  Norm(q, m + up)

\* lines 135-140: the buffered window when both bounds are known
TimeBuffer_NoCap(start, end) == TdMulTenth(DtDiff(end, start))

TimeBuffer(start, end) == TdMin(TwoMinutes, TdMulTenth(DtDiff(end, start)))

BufferedWindow(start, end) ==
    [start |-> DtMinus(start, TimeBuffer(start, end)),
     end |-> DtPlus(end, TimeBuffer(start, end))]


\* ------------------------------------------------------------------------
\* Small helpers on sequences
\* ------------------------------------------------------------------------
Min(a, b) == IF a < b THEN a ELSE b

Range(seq) == {seq[i] : i \in 1..Len(seq)}

\* a slice that keeps the whole list
Take_Whole(seq, n) == seq

\* Python's seq[:n] for n >= 0
Take(seq, n) == SubSeq(seq, 1, Min(n, Len(seq)))

\* Optional values: None is <<>>, a present value v is <<v>>
None == <<>>
Some(v) == <<v>>

\* ------------------------------------------------------------------------
\* Log messages, by the features the code inspects
\*   prefix      what message.strip() starts with, among the tested markers
\*   denied      contains one of the EXCLUDE_CONTENT substrings
\*   len         len(message)
\*   error_term  message.upper() contains ERROR, EXCEPTION, FAILED or TIMEOUT
\* ------------------------------------------------------------------------
ErrorLine == [prefix |-> "", denied |-> FALSE, len |-> 120, error_term |-> TRUE]
PlainLine == [prefix |-> "", denied |-> FALSE, len |-> 80, error_term |-> FALSE]
ConfigDump == [prefix |-> "", denied |-> TRUE, len |-> 300, error_term |-> FALSE]
InfoLine == [prefix |-> "[INFO]", denied |-> FALSE, len |-> 90, error_term |-> TRUE]
LifecycleLine == [prefix |-> "REPORT", denied |-> FALSE, len |-> 60, error_term |-> FALSE]
LifecycleErrorLine == [prefix |-> "END", denied |-> FALSE, len |-> 70, error_term |-> TRUE]
LongLine == [prefix |-> "", denied |-> FALSE, len |-> 1001, error_term |-> TRUE]
LimitLine == [prefix |-> "", denied |-> FALSE, len |-> 1000, error_term |-> TRUE]

\* lines 952-959 and 727: the recognised error-pattern markers
ErrorPatternMarkers == {"[ERROR]", "[WARN]", "ERROR:", "WARN:", "Exception", "Failed"}

LifecyclePrefixes == {"INIT_START", "START", "END", "REPORT"}

MaxMessageLength == 1000

\* _should_exclude_log_event without the length test of lines 984-986
_should_exclude_log_event_NoLengthTest(message, filter_pattern) ==
    IF filter_pattern \in ErrorPatternMarkers /\ message.prefix = "[INFO]" THEN TRUE
    ELSE IF filter_pattern \in ErrorPatternMarkers /\ message.prefix \in LifecyclePrefixes
         THEN TRUE
    ELSE IF message.denied THEN TRUE
    ELSE FALSE

_should_exclude_log_event(message, filter_pattern) ==
    IF filter_pattern \in ErrorPatternMarkers /\ message.prefix = "[INFO]" THEN TRUE
    ELSE IF filter_pattern \in ErrorPatternMarkers /\ message.prefix \in LifecyclePrefixes
         THEN TRUE
    ELSE IF message.denied THEN TRUE
    ELSE IF message.len > MaxMessageLength THEN TRUE
    ELSE FALSE

\* lines 724-729
SearchLimitFactor == 5

\* line 727: the patterns whose raw limit is raised
SearchLimitMarkers == {"[ERROR]", "[WARN]", "ERROR:", "WARN:", "Exception", "Failed"}

\* a raw limit raised for the default pattern "ERROR" as well
search_limit_AlsoDefault(filter_pattern, max_events) ==
    IF filter_pattern \in SearchLimitMarkers \cup {"ERROR"}
    THEN max_events * SearchLimitFactor
    ELSE max_events

search_limit(filter_pattern, max_events) ==
    IF filter_pattern \in SearchLimitMarkers
    THEN max_events * SearchLimitFactor
    ELSE max_events

\* lines 749-765: keep the raw events that are not excluded, in order, and stop
\* right after an append that brings the list to max_events or more
RECURSIVE CollectEvents(_, _, _, _)
CollectEvents(raw, filter_pattern, max_events, events) ==
    IF raw = <<>> THEN events
    ELSE IF _should_exclude_log_event(Head(raw), filter_pattern)
         THEN CollectEvents(Tail(raw), filter_pattern, max_events, events)
    ELSE IF Len(events) + 1 >= max_events THEN Append(events, Head(raw))
    ELSE CollectEvents(Tail(raw), filter_pattern, max_events, Append(events, Head(raw)))

\* a window that keeps the one bound that is known
SearchWindow_KeepsKnownBound(start_time, end_time, clock) ==
    [start |-> IF start_time # None THEN start_time[1] ELSE DtMinus(clock, Lookback),
     end |-> IF end_time # None THEN end_time[1] ELSE clock]

\* lines 715-721: the window of one query; datetime objects are always truthy
SearchWindow(start_time, end_time, clock) ==
    IF start_time # None /\ end_time # None
    THEN [start |-> start_time[1], end |-> end_time[1]]
    ELSE [start |-> DtMinus(clock, Lookback), end |-> clock]

\* lines 709-788: the events one call of _search_cloudwatch_logs returns when
\* filter_log_events answers `response` (raw events, or a raised exception)
_search_cloudwatch_logs(response, filter_pattern, max_events) ==
    IF response.raised THEN <<>>
    ELSE CollectEvents(response.events, filter_pattern, max_events, <<>>)

\* ------------------------------------------------------------------------
\* Inputs: call arguments and the answers of the external stores
\* ------------------------------------------------------------------------
DocumentId == "report.pdf"

\* line 352: document_id.replace(".pdf", "").replace(".", "-")
DocIdentifier(document_id) == IF document_id = "report.pdf" THEN "report" ELSE document_id

\* <<filter_pattern, max_log_events>> of the calls: the default pattern and one
\* recognised error marker, max_log_events after safe_int_conversion
SearchArgs == { <<"ERROR", 2>>, <<"Failed", 1>> }

\* max_log_groups after safe_int_conversion (20 is the default)
MaxLogGroupsDefault == 20
MaxLogGroupsArgs == {0, 2, MaxLogGroupsDefault}

\* instants of the model: the document starts at T0, the search runs at Now0
T0 == [s |-> 5000, us |-> 0]
Now0 == [s |-> 10000, us |-> 0]
Tick == [s |-> 1, us |-> 0]

\* a timestamp field of the tracking record: absent (missing or empty),
\* an ISO string that fromisoformat parses to `at`, or an unparseable string
AbsentTime == [kind |-> "absent", at |-> T0]
InvalidTime == [kind |-> "invalid", at |-> T0]
IsoTime(t) == [kind |-> "iso", at |-> t]

\* <<InitialEventTime, CompletionTime>> of the records the tracking store holds
RecordTimes ==
    { <<AbsentTime, AbsentTime>>,
      <<IsoTime(T0), AbsentTime>>,
      <<AbsentTime, IsoTime(T0)>>,
      <<IsoTime(T0), IsoTime(DtPlus(T0, [s |-> 1200, us |-> 0]))>>,
      <<IsoTime(T0), IsoTime(DtMinus(T0, [s |-> 600, us |-> 0]))>>,
      <<InvalidTime, AbsentTime>> }

\* ExecutionArn split at ":" (absent: the empty sequence)
ExecutionArns == { <<>>, <<"arn", "states", "execution", "workflow", "exec-1">> }

DocumentRecords ==
    { [Status |-> st, XRayTraceId |-> tr, ExecutionArn |-> arn,
       InitialEventTime |-> tm[1], CompletionTime |-> tm[2]] :
        st \in {"FAILED", "COMPLETED"}, tr \in {"", "1-trace"},
        arn \in ExecutionArns, tm \in RecordTimes }

NoRecord ==
    [Status |-> "", XRayTraceId |-> "", ExecutionArn |-> <<>>,
     InitialEventTime |-> AbsentTime, CompletionTime |-> AbsentTime]

\* lines 76-91: what dynamodb_record(document_id) answers
TrackingResponses ==
    { [raised |-> TRUE, document_found |-> FALSE, document |-> NoRecord],
      [raised |-> FALSE, document_found |-> FALSE, document |-> NoRecord] }
    \cup { [raised |-> FALSE, document_found |-> TRUE, document |-> d] :
            d \in DocumentRecords }

\* lines 155-157: what extract_lambda_request_ids(trace_id) answers: a dict in
\* insertion order, function name -> request id
FunctionNames == <<"fn-1", "fn-2", "fn-3", "fn-4", "fn-5", "fn-6", "fn-7", "fn-8">>
RequestIds == <<"req-1", "req-2", "req-3", "req-4", "req-5", "req-6", "req-7", "req-8">>

TraceMapOfLength(n) == [i \in 1..n |-> [fn |-> FunctionNames[i], rid |-> RequestIds[i]]]

TraceResponses ==
    { [raised |-> TRUE, map |-> <<>>] }
    \cup { [raised |-> FALSE, map |-> TraceMapOfLength(n)] : n \in 0..MaxTrace }

\* lines 94-102: the outcome of _get_log_group_prefix and of describe_log_groups
PrefixResponses == {"error", "main", "pattern"}

LogGroupNames == <<"lg-1", "lg-2", "lg-3", "lg-4", "lg-5", "lg-6", "lg-7", "lg-8">>

LogGroupsOfLength(n) == [i \in 1..n |-> LogGroupNames[i]]

LogGroupResponses ==
    { [raised |-> TRUE, groups |-> <<>>] }
    \cup { [raised |-> FALSE, groups |-> LogGroupsOfLength(n)] : n \in 0..MaxGroups }

\* line 744: what filter_log_events answers to one query
\* (a raised exception is transient, e.g. a timeout or throttling, or not)
LogStoreResponses ==
    { [raised |-> TRUE, transient |-> tr, events |-> <<>>] : tr \in BOOLEAN }
    \cup { [raised |-> FALSE, transient |-> FALSE, events |-> e] :
            e \in { <<>>, <<ConfigDump>>, <<PlainLine>>, <<ConfigDump, PlainLine>>,
                    <<ErrorLine, PlainLine, ErrorLine>> } }

\* the request_id argument when none is passed (None and "" are both falsy)
NoRequestId == ""

\* ------------------------------------------------------------------------
\* The search strategy (lines 164-232)
\* ------------------------------------------------------------------------
MapValues(map) == [i \in 1..Len(map) |-> map[i].rid]

MapHasKey(map, fn) == \E i \in 1..Len(map) : map[i].fn = fn

MapGet(map, fn) == map[CHOOSE i \in 1..Len(map) : map[i].fn = fn].rid

\* lines 244-251: next(name for name, req_id in map.items() if req_id == rid, "Unknown")
FunctionNameOf(map, rid) ==
    IF \E i \in 1..Len(map) : map[i].rid = rid
    THEN map[CHOOSE i \in 1..Len(map) :
                 map[i].rid = rid /\ \A j \in 1..(i - 1) : map[j].rid # rid].fn
    ELSE "Unknown"

\* lines 169-183: the last function of the map, when the document failed
primary_failed_lambda_function_First(status, map) ==
    IF status = "FAILED" /\ Len(map) > 0 THEN Some(map[1].fn) ELSE None

primary_failed_lambda_function(status, map) ==
    IF status = "FAILED" /\ Len(map) > 0 THEN Some(map[Len(map)].fn) ELSE None

\* line 180: failed_lambda_functions = [primary_failed_lambda_function]
failed_lambda_functions(status, map) ==
    IF primary_failed_lambda_function(status, map) # None
    THEN <<primary_failed_lambda_function(status, map)[1]>>
    ELSE <<>>

\* lines 199-209: request ids of the failed functions not yet listed
RECURSIVE AddFailedRequestIds(_, _, _)
AddFailedRequestIds(functions, map, acc) ==
    IF functions = <<>> THEN acc
    ELSE LET fn == Head(functions)
             more == IF MapHasKey(map, fn) /\ MapGet(map, fn) \notin Range(acc)
                     THEN Append(acc, MapGet(map, fn))
                     ELSE acc
         IN  AddFailedRequestIds(Tail(functions), map, more)

\* lines 185-209
failed_lambda_request_ids(status, map) ==
    LET primary == primary_failed_lambda_function(status, map)
        first == IF primary # None /\ MapHasKey(map, primary[1])
                 THEN <<MapGet(map, primary[1])>>
                 ELSE <<>>
    IN  AddFailedRequestIds(failed_lambda_functions(status, map), map, first)

\* every request id of the trace map, the failed ones too
other_lambda_request_ids_All(map, failed) == MapValues(map)

\* lines 211-216
other_lambda_request_ids(map, failed) ==
    SelectSeq(MapValues(map), LAMBDA r : r \notin Range(failed))

\* lines 218-225: ExecutionArn.split(":")[-1], only without failed request ids
step_function_execution_patterns_Always(arn, failed) ==
    IF arn # <<>> THEN <<arn[Len(arn)]>> ELSE <<>>

step_function_execution_patterns(arn, failed) ==
    IF arn # <<>> /\ failed = <<>> THEN <<arn[Len(arn)]>> ELSE <<>>

\* lines 227-232
BuildStrategy(status, arn, map) ==
    LET failed == failed_lambda_request_ids(status, map)
    IN  [failed_lambda_request_ids |-> failed,
         other_lambda_request_ids |-> other_lambda_request_ids(map, failed),
         step_function_execution_patterns |->
             step_function_execution_patterns(arn, failed)]

NoStrategy ==
    [failed_lambda_request_ids |-> <<>>, other_lambda_request_ids |-> <<>>,
     step_function_execution_patterns |-> <<>>]

\* caps of the loops: lines 298, 354 and 408-410
OtherRequestIdCap == 3
DocumentSearchGroupCap == 3
BroadSearchGroupCap == 2

\* ------------------------------------------------------------------------
\* Control flow of the cascade (lines 239-474): the position of the next
\* log-store query, or "return" when the report is built next.
\*   st     log_search_strategy
\*   G      len(groups_to_search)
\*   total  total_events
\* ------------------------------------------------------------------------
Pos(p, c, g) == [pc |-> p, ci |-> c, gi |-> g]

ReturnPos == Pos("return", 0, 0)

\* lines 441-474: the loop over the execution patterns
EnterExecution(st, G) ==
    IF Len(st.step_function_execution_patterns) > 0 /\ G > 0
    THEN Pos("search_execution", 1, 1)
    ELSE ReturnPos

AfterExecution(st, G, total, c, g) ==
    IF g < G THEN Pos("search_execution", c, g + 1)
    ELSE IF total > 0 THEN ReturnPos
    ELSE IF c < Len(st.step_function_execution_patterns)
         THEN Pos("search_execution", c + 1, 1)
    ELSE ReturnPos

\* lines 406-439: the broad search over groups_to_search[:2]
EnterBroad(st, G, total) ==
    IF total = 0 /\ Min(BroadSearchGroupCap, G) > 0
    THEN Pos("search_broad", 0, 1)
    ELSE EnterExecution(st, G)

AfterBroad(st, G, found, g) ==
    IF found THEN EnterExecution(st, G)
    ELSE IF g < Min(BroadSearchGroupCap, G) THEN Pos("search_broad", 0, g + 1)
    ELSE EnterExecution(st, G)

\* lines 349-404: the document-specific search over groups_to_search[:3]
EnterDocument(st, G, total) ==
    IF total = 0 /\ Min(DocumentSearchGroupCap, G) > 0
    THEN Pos("search_document", 0, 1)
    ELSE EnterBroad(st, G, total)

AfterDocument(st, G, total, appended, g) ==
    IF appended THEN EnterBroad(st, G, total)
    ELSE IF g < Min(DocumentSearchGroupCap, G) THEN Pos("search_document", 0, g + 1)
    ELSE EnterBroad(st, G, total)

\* lines 344-348: the guard of the whole fallback block
EnterFallback(st, G, total) ==
    IF total = 0 /\ Len(st.step_function_execution_patterns) > 0
    THEN EnterDocument(st, G, total)
    ELSE ReturnPos

\* lines 294-342: the loop over other_lambda_request_ids[:3]
EnterOther(st, G, total) ==
    IF total = 0 /\ Len(st.other_lambda_request_ids) > 0 /\ G > 0
    THEN Pos("search_other", 1, 1)
    ELSE EnterFallback(st, G, total)

AfterOther_NoBreak(st, G, total, c, g) ==
    IF g < G THEN Pos("search_other", c, g + 1)
    ELSE IF c < Min(OtherRequestIdCap, Len(st.other_lambda_request_ids))
         THEN Pos("search_other", c + 1, 1)
    ELSE EnterFallback(st, G, total)

AfterOther(st, G, total, c, g) ==
    IF g < G THEN Pos("search_other", c, g + 1)
    ELSE IF total > 0 THEN EnterFallback(st, G, total)
    ELSE IF c < Min(OtherRequestIdCap, Len(st.other_lambda_request_ids))
         THEN Pos("search_other", c + 1, 1)
    ELSE EnterFallback(st, G, total)

\* lines 239-292: the loop over failed_lambda_request_ids
EnterFailed(st, G) ==
    IF Len(st.failed_lambda_request_ids) > 0 /\ G > 0
    THEN Pos("search_failed", 1, 1)
    ELSE EnterOther(st, G, 0)

AfterFailed(st, G, total, c, g) ==
    IF g < G THEN Pos("search_failed", c, g + 1)
    ELSE IF total > 0 THEN EnterOther(st, G, total)
    ELSE IF c < Len(st.failed_lambda_request_ids) THEN Pos("search_failed", c + 1, 1)
    ELSE EnterOther(st, G, total)

\* lines 709 and 786-788: an exception of filter_log_events is caught inside
\* _search_cloudwatch_logs and never reaches the cascade
search_exception_escapes_Uncaught(response) == response.raised

search_exception_escapes(response) == FALSE

AbortPos == Pos("abort", 0, 0)

\* the position after one query
AfterSearch(response, pos) ==
    IF search_exception_escapes(response) THEN AbortPos ELSE pos

\* ------------------------------------------------------------------------
\* State of one run of cloudwatch_document_logs
\* ------------------------------------------------------------------------
VARIABLES
    pc,                                 \* position of the run
    args,                               \* the call's arguments
    dynamodb_response,                  \* the tracking store's answer (line 76)
    groups_to_search,                   \* line 237
    document_start_time,                \* lines 120-140, None or Some(datetime)
    document_end_time,
    lambda_function_to_request_id_map,  \* lines 149-157
    log_search_strategy,                \* lines 228-232
    all_results,                        \* line 235
    total_events,                       \* line 236
    ci,                                 \* index of the candidate being searched
    gi,                                 \* index of the log group being searched
    now,                                \* the clock datetime.now() reads
    describe_calls,                     \* describe_log_groups calls issued
    query_log,                          \* filter_log_events calls issued, in order
    report,                             \* the returned value
    failures,                           \* history: failed log-store calls
    previous_run                        \* history: the run before this one

vars ==
    <<pc, args, dynamodb_response, groups_to_search, document_start_time,
      document_end_time, lambda_function_to_request_id_map, log_search_strategy,
      all_results, total_events, ci, gi, now, describe_calls, query_log, report,
      failures, previous_run>>

NoArgs ==
    [document_id |-> DocumentId, filter_pattern |-> "", max_log_events |-> 0,
     max_log_groups |-> 0]

NoResponse == [raised |-> FALSE, document_found |-> FALSE, document |-> NoRecord]

\* line 91: document_record = dynamodb_response.get("document", {})
document_record == dynamodb_response.document

NoReport == [returned |-> "nothing"]

\* history of the failed log-store calls (lines 744 and 786-788), recorded
\* when `tracked`: how the last filter_log_events call failed, if it did, and
\* whether every filter_log_events call of the run so far failed
NoFailures(tracked) == [tracked |-> tracked, last |-> "none", every |-> TRUE]

FailureKind(response) ==
    IF ~response.raised THEN "none"
    ELSE IF response.transient THEN "transient"
    ELSE "permanent"

RecordFailure(history, response) ==
    IF ~history.tracked THEN history
    ELSE [tracked |-> TRUE, last |-> FailureKind(response),
          every |-> history.every /\ response.raised]

\* the stores of a second run are those of the first: the tracking record, the
\* log groups, the trace map and the events of each query are the same
Replaying == previous_run # None

TrackingAnswers == IF Replaying THEN {dynamodb_response} ELSE TrackingResponses

TraceAnswers ==
    IF Replaying
    THEN {[raised |-> FALSE, map |-> previous_run[1].lambda_function_to_request_id_map]}
    ELSE TraceResponses

LogStoreAnswers(pattern) ==
    IF Replaying /\ Len(query_log) < Len(previous_run[1].query_log)
    THEN {response \in LogStoreResponses :
            _search_cloudwatch_logs(response, pattern, args.max_log_events)
                = previous_run[1].query_log[Len(query_log) + 1].events}
    ELSE LogStoreResponses

Init ==
    /\ pc = "idle"
    /\ args = NoArgs
    /\ dynamodb_response = NoResponse
    /\ groups_to_search = <<>>
    /\ document_start_time = None
    /\ document_end_time = None
    /\ lambda_function_to_request_id_map = <<>>
    /\ log_search_strategy = NoStrategy
    /\ all_results = <<>>
    /\ total_events = 0
    /\ ci = 0
    /\ gi = 0
    /\ now = Now0
    /\ describe_calls = 0
    /\ query_log = <<>>
    /\ report = NoReport
    /\ failures = NoFailures(FALSE)
    /\ previous_run = None

\* lines 499-501 (and 786-788, 857-859): create_error_response(str(e), ...)
ErrorResponse_Reraised(document_id) ==
    [returned |-> "raised", error |-> "exception", document_id |-> document_id]

ErrorResponse(document_id) ==
    [returned |-> "exception", error |-> "exception", document_id |-> document_id,
     events_found |-> 0]

\* lines 79-89
NotFoundReport(document_id) ==
    [returned |-> "document_not_found", analysis_type |-> "document_not_found",
     document_id |-> document_id, error |-> "Document not found in tracking table",
     events_found |-> 0]

\* lines 96-99
PrefixErrorReport ==
    [returned |-> "prefix_error", error |-> "Failed to get log prefix",
     events_found |-> 0]

\* lines 112-117
NoLogGroupsReport(document_id, log_prefix) ==
    [returned |-> "no_log_groups", document_id |-> document_id,
     log_prefix |-> log_prefix, events_found |-> 0, message |-> "No log groups found"]

\* lines 476-497: the report of a completed cascade
FinalReport(document_id, rec, map, st, start, end, groups, results, total) ==
    [returned |-> "report",
     analysis_type |-> "document_specific",
     document_id |-> document_id,
     document_status |-> rec.Status,
     step_function_execution_arn |-> rec.ExecutionArn,
     xray_trace_id |-> rec.XRayTraceId,
     log_search_strategy |-> st,
     failed_lambda_functions |-> failed_lambda_functions(rec.Status, map),
     primary_failed_lambda_function |->
         primary_failed_lambda_function(rec.Status, map),
     lambda_function_to_request_id_map |-> map,
     document_processing_time_window |-> [start |-> start, end |-> end],
     total_events_found |-> total,
     log_groups_searched |-> Len(groups),
     log_groups_with_events |-> Len(results),
     results |-> results]

\* the step after a query: the next query of the cascade, or the return of the
\* report when the cascade is over
Continue(pos, results, total) ==
    /\ all_results' = results
    /\ total_events' = total
    /\ ci' = pos.ci
    /\ gi' = pos.gi
    /\ IF pos.pc = "abort"
       THEN /\ pc' = "done"
            /\ report' = ErrorResponse(args.document_id)
       ELSE IF pos.pc = "return"
       THEN /\ pc' = "done"
            /\ report' = FinalReport(args.document_id, document_record,
                                     lambda_function_to_request_id_map,
                                     log_search_strategy, document_start_time,
                                     document_end_time, groups_to_search, results,
                                     total)
       ELSE /\ pc' = pos.pc
            /\ UNCHANGED report

\* the call: cloudwatch_document_logs(document_id, stack_name, filter_pattern,
\* max_log_events, max_log_groups), lines 31-37 and 72-74
Invoke ==
    /\ pc = "idle"
    /\ \E sa \in SearchArgs, mg \in MaxLogGroupsArgs :
          args' = [document_id |-> DocumentId, filter_pattern |-> sa[1],
                   max_log_events |-> sa[2], max_log_groups |-> mg]
    /\ Replaying => args' = args
    /\ pc' = "get_record"
    /\ UNCHANGED <<dynamodb_response, groups_to_search, document_start_time,
                   document_end_time, lambda_function_to_request_id_map,
                   log_search_strategy, all_results, total_events, ci, gi, now,
                   describe_calls, query_log, report>>
    /\ UNCHANGED <<failures, previous_run>>

\* lines 76-78: how the run goes on after the tracking store's answer
RecordOutcome_AlwaysFound(response) ==
    IF response.raised THEN "exception" ELSE "found"

RecordOutcome(response) ==
    IF response.raised THEN "exception"
    ELSE IF ~response.document_found THEN "not_found"
    ELSE "found"

\* lines 75-91: the tracking record, or the not-found report
GetDocumentRecord ==
    /\ pc = "get_record"
    /\ \E response \in TrackingAnswers :
          /\ dynamodb_response' = response
          /\ IF RecordOutcome(response) = "exception"
             THEN /\ report' = ErrorResponse(args.document_id)
                  /\ pc' = "done"
             ELSE IF RecordOutcome(response) = "not_found"
             THEN /\ report' = NotFoundReport(args.document_id)
                  /\ pc' = "done"
             ELSE /\ pc' = "discover"
                  /\ UNCHANGED report
    /\ UNCHANGED <<args, groups_to_search, document_start_time, document_end_time,
                   lambda_function_to_request_id_map, log_search_strategy,
                   all_results, total_events, ci, gi, now, describe_calls,
                   query_log>>
    /\ UNCHANGED <<failures, previous_run>>

\* line 832: the shortest prefix _get_cloudwatch_log_groups accepts
MinPrefixLength == 5

\* lines 915 and 924: len(prefix) for the prefixes _get_log_group_prefix
\* builds, "/aws/lambda/" + stack_name and "/" + nested stack name + "/lambda"
\* (stack names have at least one character)
PrefixLength(prefix) == IF prefix = "main" THEN 12 + 9 ELSE 8 + 14

\* lines 831-859: _get_cloudwatch_log_groups(prefix) when describe_log_groups
\* answers `response`; `called` tells whether describe_log_groups was called
_get_cloudwatch_log_groups_NoPrefixCheck(prefix_length, response) ==
    IF response.raised
    THEN [called |-> TRUE, log_groups_found |-> 0, log_groups |-> <<>>]
    ELSE [called |-> TRUE, log_groups_found |-> Len(response.groups),
          log_groups |-> response.groups]

_get_cloudwatch_log_groups(prefix_length, response) ==
    IF prefix_length < MinPrefixLength
    THEN [called |-> FALSE, log_groups_found |-> 0, log_groups |-> <<>>]
    ELSE IF response.raised
    THEN [called |-> TRUE, log_groups_found |-> 0, log_groups |-> <<>>]
    ELSE [called |-> TRUE, log_groups_found |-> Len(response.groups),
          log_groups |-> response.groups]

\* lines 102-117 and 237: the log groups under the prefix and the capped list
\* of groups to search
ListLogGroups(prefix_length, log_prefix, response) ==
    LET log_groups == _get_cloudwatch_log_groups(prefix_length, response)
    IN  /\ describe_calls' = describe_calls + (IF log_groups.called THEN 1 ELSE 0)
        /\ IF log_groups.log_groups_found = 0
           THEN /\ report' = NoLogGroupsReport(args.document_id, log_prefix)
                /\ pc' = "done"
                /\ UNCHANGED groups_to_search
           ELSE /\ groups_to_search' =
                      Take(log_groups.log_groups, args.max_log_groups)
                /\ pc' = "plan"
                /\ UNCHANGED report

\* lines 93-117 and 237: the log group prefix, then the log groups under it
DiscoverLogGroups ==
    /\ pc = "discover"
    /\ \E prefix \in PrefixResponses, response \in LogGroupResponses :
          IF prefix = "error"
          THEN /\ report' = PrefixErrorReport
               /\ pc' = "done"
               /\ UNCHANGED <<groups_to_search, describe_calls>>
          ELSE ListLogGroups(PrefixLength(prefix), prefix, response)
    /\ Replaying => /\ pc' = "plan"
                    /\ groups_to_search' = previous_run[1].groups_to_search
    /\ UNCHANGED <<args, dynamodb_response, document_start_time, document_end_time,
                   lambda_function_to_request_id_map, log_search_strategy,
                   all_results, total_events, ci, gi, now, query_log>>
    /\ UNCHANGED <<failures, previous_run>>

\* lines 119-133: datetime.fromisoformat of a present timestamp field
ParsedTime(field) == IF field.kind = "iso" THEN Some(field.at) ELSE None

\* lines 135-140: both bounds buffered when both are known
document_window(initial, completion) ==
    IF initial # None /\ completion # None
    THEN [start |-> Some(BufferedWindow(initial[1], completion[1]).start),
          end |-> Some(BufferedWindow(initial[1], completion[1]).end)]
    ELSE [start |-> initial, end |-> completion]

\* lines 119-237: the time window, the trace map and the search strategy
PlanSearch(trace) ==
    LET rec == document_record
        G == Len(groups_to_search)
        bad_time == rec.InitialEventTime.kind = "invalid"
                    \/ rec.CompletionTime.kind = "invalid"
        window == document_window(ParsedTime(rec.InitialEventTime),
                                  ParsedTime(rec.CompletionTime))
        map == IF rec.XRayTraceId # "" THEN trace.map ELSE <<>>
        st == BuildStrategy(rec.Status, rec.ExecutionArn, map)
        pos == EnterFailed(st, G)
    IN  IF bad_time \/ (rec.XRayTraceId # "" /\ trace.raised)
        THEN /\ report' = ErrorResponse(args.document_id)
             /\ pc' = "done"
             /\ UNCHANGED <<document_start_time, document_end_time,
                            lambda_function_to_request_id_map,
                            log_search_strategy, ci, gi>>
        ELSE /\ document_start_time' = window.start
             /\ document_end_time' = window.end
             /\ lambda_function_to_request_id_map' = map
             /\ log_search_strategy' = st
             /\ ci' = pos.ci
             /\ gi' = pos.gi
             /\ IF pos.pc = "return"
                THEN /\ pc' = "done"
                     /\ report' = FinalReport(args.document_id, rec, map, st,
                                              window.start, window.end,
                                              groups_to_search, <<>>, 0)
                ELSE /\ pc' = pos.pc
                     /\ UNCHANGED report

\* the call of extract_lambda_request_ids answers `trace`
BuildSearchStrategy ==
    /\ pc = "plan"
    /\ \E trace \in TraceAnswers : PlanSearch(trace)
    /\ UNCHANGED <<args, dynamodb_response, groups_to_search, all_results,
                   total_events, now, describe_calls, query_log>>
    /\ UNCHANGED <<failures, previous_run>>

\* the filter_log_events call of one _search_cloudwatch_logs call, as logged
\* (events: what the search returned)
QueryEntry(tier, log_group, pattern, request_id, events, added) ==
    LET window == SearchWindow(document_start_time, document_end_time, now)
    IN  [tier |-> tier, log_group |-> log_group, filter_pattern |-> pattern,
         request_id |-> request_id, start_time |-> window.start,
         end_time |-> window.end,
         limit |-> search_limit(pattern, args.max_log_events),
         events |-> events,
         events_found |-> Len(events), events_added |-> added]

\* every event of the container, with an error term or without
document_error_events_All(events) == events

\* lines 374-383: the events whose message holds an error term
document_error_events(events) == SelectSeq(events, LAMBDA e : e.error_term)

\* the entry of a document-specific search counting every event of the search
DocumentSpecificResult_CountsSearch(log_group_name, doc_identifier, events) ==
    [log_group |-> log_group_name,
     search_type |-> "document_specific_error_search",
     pattern_used |-> doc_identifier,
     events_found |-> Len(events),
     events |-> document_error_events(events)]

\* lines 394-402: the entry a document-specific search adds to all_results
DocumentSpecificResult(log_group_name, doc_identifier, events) ==
    [log_group |-> log_group_name,
     search_type |-> "document_specific_error_search",
     pattern_used |-> doc_identifier,
     events_found |-> Len(document_error_events(events)),
     events |-> document_error_events(events)]

\* lines 256-292: one query of the failed-request-id loop
SearchFailedLambdaRequestId ==
    /\ pc = "search_failed"
    /\ \E response \in LogStoreAnswers(args.filter_pattern) :
          LET rid == log_search_strategy.failed_lambda_request_ids[ci]
              log_group_name == groups_to_search[gi]
              events == _search_cloudwatch_logs(response, args.filter_pattern,
                                                args.max_log_events)
              total == total_events + Len(events)
              pos == AfterSearch(response,
                         AfterFailed(log_search_strategy,
                         Len(groups_to_search), total, ci, gi))
          IN  /\ failures' = RecordFailure(failures, response)
              /\ query_log' = Append(query_log,
                     QueryEntry(1, log_group_name, args.filter_pattern, rid, events,
                                Len(events)))
              /\ Continue(pos,
                 IF Len(events) > 0
                 THEN Append(all_results,
                          [log_group |-> log_group_name,
                           search_type |-> "failed_lambda_request_id",
                           lambda_function_name |->
                               FunctionNameOf(lambda_function_to_request_id_map, rid),
                           pattern_used |-> rid,
                           events_found |-> Len(events),
                           events |-> events])
                 ELSE all_results,
                     total)
    /\ now' = DtPlus(now, Tick)
    /\ UNCHANGED <<args, dynamodb_response, groups_to_search, document_start_time,
                   document_end_time, lambda_function_to_request_id_map,
                   log_search_strategy, describe_calls>>
    /\ UNCHANGED previous_run

\* lines 312-342: one query of the other-request-id loop
SearchOtherLambdaRequestId ==
    /\ pc = "search_other"
    /\ \E response \in LogStoreAnswers(args.filter_pattern) :
          LET rid == log_search_strategy.other_lambda_request_ids[ci]
              log_group_name == groups_to_search[gi]
              events == _search_cloudwatch_logs(response, args.filter_pattern,
                                                args.max_log_events)
              total == total_events + Len(events)
              pos == AfterSearch(response,
                         AfterOther(log_search_strategy,
                         Len(groups_to_search), total, ci, gi))
          IN  /\ failures' = RecordFailure(failures, response)
              /\ query_log' = Append(query_log,
                     QueryEntry(2, log_group_name, args.filter_pattern, rid, events,
                                Len(events)))
              /\ Continue(pos,
                 IF Len(events) > 0
                 THEN Append(all_results,
                          [log_group |-> log_group_name,
                           search_type |-> "other_lambda_request_id",
                           lambda_function_name |->
                               FunctionNameOf(lambda_function_to_request_id_map, rid),
                           pattern_used |-> rid,
                           events_found |-> Len(events),
                           events |-> events])
                 ELSE all_results,
                     total)
    /\ now' = DtPlus(now, Tick)
    /\ UNCHANGED <<args, dynamodb_response, groups_to_search, document_start_time,
                   document_end_time, lambda_function_to_request_id_map,
                   log_search_strategy, describe_calls>>
    /\ UNCHANGED previous_run

\* lines 354-404: one query of the document-specific search
SearchDocumentSpecific ==
    /\ pc = "search_document"
    /\ \E response \in LogStoreAnswers(DocIdentifier(args.document_id)) :
          LET doc_identifier == DocIdentifier(args.document_id)
              log_group_name == groups_to_search[gi]
              events == _search_cloudwatch_logs(response, doc_identifier,
                                                args.max_log_events)
              errors == document_error_events(events)
              appended == Len(events) > 0 /\ Len(errors) > 0
              total == IF appended THEN total_events + Len(errors) ELSE total_events
              pos == AfterSearch(response,
                         AfterDocument(log_search_strategy,
                         Len(groups_to_search), total, appended, gi))
          IN  /\ failures' = RecordFailure(failures, response)
              /\ query_log' = Append(query_log,
                     QueryEntry(4, log_group_name, doc_identifier, NoRequestId, events,
                                total - total_events))
              /\ Continue(pos,
                 IF appended
                 THEN Append(all_results,
                          DocumentSpecificResult(log_group_name, doc_identifier,
                                                 events))
                 ELSE all_results,
                     total)
    /\ now' = DtPlus(now, Tick)
    /\ UNCHANGED <<args, dynamodb_response, groups_to_search, document_start_time,
                   document_end_time, lambda_function_to_request_id_map,
                   log_search_strategy, describe_calls>>
    /\ UNCHANGED previous_run

\* the entry of a broad fallback search without its warning
BroadFallbackResult_NoWarning(log_group_name, filter_pattern, events) ==
    [log_group |-> log_group_name,
     search_type |-> "broad_error_search_fallback",
     pattern_used |-> filter_pattern,
     events_found |-> Len(events),
     events |-> events]

\* lines 421-432: the entry a broad fallback search adds to all_results
BroadFallbackResult(log_group_name, filter_pattern, events) ==
    [log_group |-> log_group_name,
     search_type |-> "broad_error_search_fallback",
     pattern_used |-> filter_pattern,
     events_found |-> Len(events),
     events |-> events,
     warning |-> "May include errors from other concurrent documents"]

\* lines 406-439: one query of the broad fallback search
SearchBroadFallback ==
    /\ pc = "search_broad"
    /\ \E response \in LogStoreAnswers(args.filter_pattern) :
          LET log_group_name == groups_to_search[gi]
              events == _search_cloudwatch_logs(response, args.filter_pattern,
                                                args.max_log_events)
              total == total_events + Len(events)
              pos == AfterSearch(response,
                         AfterBroad(log_search_strategy,
                         Len(groups_to_search), Len(events) > 0, gi))
          IN  /\ failures' = RecordFailure(failures, response)
              /\ query_log' = Append(query_log,
                     QueryEntry(5, log_group_name, args.filter_pattern, NoRequestId,
                                events, Len(events)))
              /\ Continue(pos,
                 IF Len(events) > 0
                 THEN Append(all_results,
                          BroadFallbackResult(log_group_name, args.filter_pattern,
                                              events))
                 ELSE all_results,
                     total)
    /\ now' = DtPlus(now, Tick)
    /\ UNCHANGED <<args, dynamodb_response, groups_to_search, document_start_time,
                   document_end_time, lambda_function_to_request_id_map,
                   log_search_strategy, describe_calls>>
    /\ UNCHANGED previous_run

\* lines 441-474: one query of the execution-pattern loop
SearchStepFunctionExecution ==
    /\ pc = "search_execution"
    /\ \E response \in LogStoreAnswers(log_search_strategy.step_function_execution_patterns[ci]) :
          LET step_function_pattern ==
                  log_search_strategy.step_function_execution_patterns[ci]
              log_group_name == groups_to_search[gi]
              events == _search_cloudwatch_logs(response, step_function_pattern,
                                                args.max_log_events)
              total == total_events + Len(events)
              pos == AfterSearch(response,
                         AfterExecution(log_search_strategy,
                         Len(groups_to_search), total, ci, gi))
          IN  /\ failures' = RecordFailure(failures, response)
              /\ query_log' = Append(query_log,
                     QueryEntry(3, log_group_name, step_function_pattern, NoRequestId,
                                events, Len(events)))
              /\ Continue(pos,
                 IF Len(events) > 0
                 THEN Append(all_results,
                          [log_group |-> log_group_name,
                           search_type |-> "step_function_execution_fallback",
                           pattern_used |-> step_function_pattern,
                           events_found |-> Len(events),
                           events |-> events])
                 ELSE all_results,
                     total)
    /\ now' = DtPlus(now, Tick)
    /\ UNCHANGED <<args, dynamodb_response, groups_to_search, document_start_time,
                   document_end_time, lambda_function_to_request_id_map,
                   log_search_strategy, describe_calls>>
    /\ UNCHANGED previous_run

Next ==
    \/ Invoke
    \/ GetDocumentRecord
    \/ DiscoverLogGroups
    \/ BuildSearchStrategy
    \/ SearchFailedLambdaRequestId
    \/ SearchOtherLambdaRequestId
    \/ SearchDocumentSpecific
    \/ SearchBroadFallback
    \/ SearchStepFunctionExecution

Spec == Init /\ [][Next]_vars

\* ------------------------------------------------------------------------
\* The same runs with the failed log-store calls recorded
\* ------------------------------------------------------------------------
InitFailures ==
    /\ pc = "idle"
    /\ args = NoArgs
    /\ dynamodb_response = NoResponse
    /\ groups_to_search = <<>>
    /\ document_start_time = None
    /\ document_end_time = None
    /\ lambda_function_to_request_id_map = <<>>
    /\ log_search_strategy = NoStrategy
    /\ all_results = <<>>
    /\ total_events = 0
    /\ ci = 0
    /\ gi = 0
    /\ now = Now0
    /\ describe_calls = 0
    /\ query_log = <<>>
    /\ report = NoReport
    /\ failures = NoFailures(TRUE)
    /\ previous_run = None

SpecFailures == InitFailures /\ [][Next]_vars

\* ------------------------------------------------------------------------
\* Two runs in a row: after a run returned its report the caller invokes
\* cloudwatch_document_logs again with the same arguments; the stores have not
\* changed, the clock has gone on
\* ------------------------------------------------------------------------
Restart ==
    /\ pc = "done"
    /\ report.returned = "report"
    /\ previous_run = None
    /\ previous_run' =
          Some([report |-> report, query_log |-> query_log,
                groups_to_search |-> groups_to_search,
                lambda_function_to_request_id_map |->
                    lambda_function_to_request_id_map])
    /\ pc' = "idle"
    /\ groups_to_search' = <<>>
    /\ document_start_time' = None
    /\ document_end_time' = None
    /\ lambda_function_to_request_id_map' = <<>>
    /\ log_search_strategy' = NoStrategy
    /\ all_results' = <<>>
    /\ total_events' = 0
    /\ ci' = 0
    /\ gi' = 0
    /\ describe_calls' = 0
    /\ query_log' = <<>>
    /\ report' = NoReport
    /\ UNCHANGED <<args, dynamodb_response, now, failures>>

NextTwice == Next \/ Restart

SpecTwice == Init /\ [][NextTwice]_vars

\* ------------------------------------------------------------------------
\* The window arithmetic on its own: the tracking record holds both instants,
\* drawn from WindowStarts and WindowDurations, and lines 119-140 are applied.
\* ------------------------------------------------------------------------
Micros(us) == Norm(0, us)

WindowStarts == { T0, DtPlus(T0, Micros(500000)), DtPlus(T0, Micros(999999)) }

WindowDurations ==
    { Micros(us) : us \in
        { 0, 1, 4, 5, 6, 9, 10, 14, 15, 16, 25, 95, 1000, 999995, 1000000, 1000005,
          599999995, 600000000, 600000005, 1199999985, 1199999994, 1199999995,
          1199999996, 1199999999, 1200000000, 1200000001, 1200000005, 1200000010,
          1500000000, 1800000000 } }
    \cup { DtDiff(Micros(0), Micros(us)) : us \in
        { 1, 4, 5, 6, 15, 25, 1000000, 600000000, 1199999995, 1200000000,
          1800000000 } }
    \cup { [s |-> 3600, us |-> 0], [s |-> 36000, us |-> 5] }

InitWindow ==
    /\ pc = "window"
    /\ args = NoArgs
    /\ \E start \in WindowStarts, d \in WindowDurations :
          dynamodb_response =
              [raised |-> FALSE, document_found |-> TRUE,
               document |-> [NoRecord EXCEPT !.InitialEventTime = IsoTime(start),
                                             !.CompletionTime =
                                                 IsoTime(DtPlus(start, d))]]
    /\ groups_to_search = <<>>
    /\ document_start_time = None
    /\ document_end_time = None
    /\ lambda_function_to_request_id_map = <<>>
    /\ log_search_strategy = NoStrategy
    /\ all_results = <<>>
    /\ total_events = 0
    /\ ci = 0
    /\ gi = 0
    /\ now = Now0
    /\ describe_calls = 0
    /\ query_log = <<>>
    /\ report = NoReport
    /\ failures = NoFailures(FALSE)
    /\ previous_run = None

\* lines 119-140 applied to the record
ApplyWindow ==
    /\ pc = "window"
    /\ LET window == document_window(ParsedTime(document_record.InitialEventTime),
                                     ParsedTime(document_record.CompletionTime))
       IN  /\ document_start_time' = window.start
           /\ document_end_time' = window.end
    /\ pc' = "window_done"
    /\ UNCHANGED <<args, dynamodb_response, groups_to_search,
                   lambda_function_to_request_id_map, log_search_strategy,
                   all_results, total_events, ci, gi, now, describe_calls,
                   query_log, report>>
    /\ UNCHANGED <<failures, previous_run>>

NextWindow == ApplyWindow

SpecWindow == InitWindow /\ [][NextWindow]_vars

\* ------------------------------------------------------------------------
\* One call of _search_cloudwatch_logs on its own: max_events, the filter
\* pattern and the answer of filter_log_events are drawn from small sets;
\* query_log holds that answer and report the value the call returns.
\* ------------------------------------------------------------------------
RawEvents ==
    {ErrorLine, PlainLine, ConfigDump, InfoLine, LifecycleLine, LifecycleErrorLine,
     LongLine, LimitLine}

\* the filter patterns of the call: the recognised markers, the default
\* pattern and a case identifier
SearchPatterns == SearchLimitMarkers \cup {"ERROR", "report"}

RECURSIVE RawSequences(_)
RawSequences(n) ==
    IF n = 0 THEN { <<>> }
    ELSE RawSequences(n - 1)
         \cup { Append(s, e) : s \in {q \in RawSequences(n - 1) : Len(q) = n - 1},
                               e \in RawEvents }

RawResponses ==
    { [raised |-> TRUE, transient |-> FALSE, events |-> <<>>] }
    \cup { [raised |-> FALSE, transient |-> FALSE, events |-> e] :
            e \in RawSequences(MaxRaw) }

InitSearch ==
    /\ pc = "search"
    /\ \E fp \in SearchPatterns, me \in 0..MaxEvents :
          args = [NoArgs EXCEPT !.filter_pattern = fp, !.max_log_events = me]
    /\ \E response \in RawResponses : query_log = <<response>>
    /\ dynamodb_response = NoResponse
    /\ groups_to_search = <<>>
    /\ document_start_time = None
    /\ document_end_time = None
    /\ lambda_function_to_request_id_map = <<>>
    /\ log_search_strategy = NoStrategy
    /\ all_results = <<>>
    /\ total_events = 0
    /\ ci = 0
    /\ gi = 0
    /\ now = Now0
    /\ describe_calls = 0
    /\ report = NoReport
    /\ failures = NoFailures(FALSE)
    /\ previous_run = None

\* lines 749-788: the result of the call
ApplySearch ==
    /\ pc = "search"
    /\ LET events == _search_cloudwatch_logs(query_log[1], args.filter_pattern,
                                             args.max_log_events)
       IN  report' = [returned |-> "search", events_found |-> Len(events),
                      events |-> events,
                      limit |-> search_limit(args.filter_pattern,
                                             args.max_log_events)]
    /\ pc' = "search_done"
    /\ UNCHANGED <<args, dynamodb_response, groups_to_search, document_start_time,
                   document_end_time, lambda_function_to_request_id_map,
                   log_search_strategy, all_results, total_events, ci, gi, now,
                   describe_calls, query_log, failures, previous_run>>

NextSearch == ApplySearch

SpecSearch == InitSearch /\ [][NextSearch]_vars

\* ------------------------------------------------------------------------
\* The listing of the log groups for a prefix of any length, in both tools:
\* cloudwatch_document_logs from line 102 on (the tracking record is known) and
\* cloudwatch_logs from line 572 on.  args.prefix_length is len(log_prefix).
\* ------------------------------------------------------------------------
PrefixLengths == {0, 1, 4, 5, 6, 21}

\* tracking records of the runs whose listing is examined
ListedRecords ==
    {d \in DocumentRecords :
        d.InitialEventTime = AbsentTime /\ d.CompletionTime = AbsentTime}

InitLogGroups ==
    /\ pc = "list_groups"
    /\ \E tool \in {"cloudwatch_document_logs", "cloudwatch_logs"},
          sa \in SearchArgs, mg \in MaxLogGroupsArgs, n \in PrefixLengths :
          args = [tool |-> tool, document_id |-> DocumentId,
                  filter_pattern |-> sa[1], max_log_events |-> sa[2],
                  max_log_groups |-> mg, prefix_length |-> n]
    /\ IF args.tool = "cloudwatch_logs"
       THEN dynamodb_response = NoResponse
       ELSE \E d \in ListedRecords :
               dynamodb_response =
                   [raised |-> FALSE, document_found |-> TRUE, document |-> d]
    /\ groups_to_search = <<>>
    /\ document_start_time = None
    /\ document_end_time = None
    /\ lambda_function_to_request_id_map = <<>>
    /\ log_search_strategy = NoStrategy
    /\ all_results = <<>>
    /\ total_events = 0
    /\ ci = 0
    /\ gi = 0
    /\ now = Now0
    /\ describe_calls = 0
    /\ query_log = <<>>
    /\ report = NoReport
    /\ failures = NoFailures(FALSE)
    /\ previous_run = None

\* cloudwatch_document_logs, lines 102-117 and 237
DocumentListLogGroups ==
    /\ pc = "list_groups"
    /\ args.tool = "cloudwatch_document_logs"
    /\ \E response \in LogGroupResponses :
          ListLogGroups(args.prefix_length, "given", response)
    /\ UNCHANGED <<args, dynamodb_response, document_start_time, document_end_time,
                   lambda_function_to_request_id_map, log_search_strategy,
                   all_results, total_events, ci, gi, now, query_log>>
    /\ UNCHANGED <<failures, previous_run>>

\* cloudwatch_logs, lines 582-587
StackNoLogGroupsReport(log_prefix) ==
    [returned |-> "no_log_groups", log_prefix |-> log_prefix, events_found |-> 0,
     message |-> "No log groups found with the determined prefix"]

\* cloudwatch_logs, lines 620-631
StackReport(filter_pattern, max_log_events, groups, results, total) ==
    [returned |-> "stack_report",
     filter_pattern |-> filter_pattern,
     log_groups_searched |-> Len(groups),
     log_groups_with_events |-> Len(results),
     total_events_found |-> total,
     max_log_events |-> max_log_events,
     results |-> results]

\* cloudwatch_logs, lines 572-592
StackListLogGroups ==
    /\ pc = "list_groups"
    /\ args.tool = "cloudwatch_logs"
    /\ \E response \in LogGroupResponses :
          LET log_groups == _get_cloudwatch_log_groups(args.prefix_length, response)
              groups == Take(log_groups.log_groups, args.max_log_groups)
          IN  /\ describe_calls' =
                    describe_calls + (IF log_groups.called THEN 1 ELSE 0)
              /\ IF log_groups.log_groups_found = 0
                 THEN /\ report' = StackNoLogGroupsReport("given")
                      /\ pc' = "done"
                      /\ UNCHANGED <<groups_to_search, gi>>
                 ELSE /\ groups_to_search' = groups
                      /\ IF Len(groups) = 0
                         THEN /\ pc' = "done"
                              /\ report' = StackReport(args.filter_pattern,
                                                       args.max_log_events, groups,
                                                       <<>>, 0)
                              /\ UNCHANGED gi
                         ELSE /\ pc' = "stack_search"
                              /\ gi' = 1
                              /\ UNCHANGED report
    /\ UNCHANGED <<args, dynamodb_response, document_start_time, document_end_time,
                   lambda_function_to_request_id_map, log_search_strategy,
                   all_results, total_events, ci, now, query_log>>
    /\ UNCHANGED <<failures, previous_run>>

\* a loop over groups_to_search that ends at the first log group with events
AfterStack_StopsOnEvents(G, total, g) ==
    IF g < G /\ total = 0 THEN Pos("stack_search", 0, g + 1) ELSE ReturnPos

\* cloudwatch_logs, lines 594 and 620: the position after the query of log
\* group g, whatever the query found
AfterStack(G, total, g) ==
    IF g < G THEN Pos("stack_search", 0, g + 1) ELSE ReturnPos

\* cloudwatch_logs, lines 594-631: one query of the loop over groups_to_search
StackSearchLogGroup ==
    /\ pc = "stack_search"
    /\ \E response \in LogStoreAnswers(args.filter_pattern) :
          LET log_group_name == groups_to_search[gi]
              events == _search_cloudwatch_logs(response, args.filter_pattern,
                                                args.max_log_events)
              results == IF Len(events) > 0
                         THEN Append(all_results,
                                  [log_group |-> log_group_name,
                                   events_found |-> Len(events),
                                   events |-> events])
                         ELSE all_results
              total == total_events + Len(events)
          IN  /\ failures' = RecordFailure(failures, response)
              /\ query_log' = Append(query_log,
                     QueryEntry(0, log_group_name, args.filter_pattern, NoRequestId,
                                events, Len(events)))
              /\ all_results' = results
              /\ total_events' = total
              /\ IF AfterStack(Len(groups_to_search), total, gi).pc = "return"
                 THEN /\ pc' = "done"
                      /\ report' = StackReport(args.filter_pattern,
                                               args.max_log_events,
                                               groups_to_search, results, total)
                      /\ UNCHANGED gi
                 ELSE /\ gi' = AfterStack(Len(groups_to_search), total, gi).gi
                      /\ UNCHANGED <<pc, report>>
    /\ now' = DtPlus(now, Tick)
    /\ UNCHANGED <<args, dynamodb_response, groups_to_search, document_start_time,
                   document_end_time, lambda_function_to_request_id_map,
                   log_search_strategy, ci, describe_calls>>
    /\ UNCHANGED previous_run

NextLogGroups ==
    \/ DocumentListLogGroups
    \/ StackListLogGroups
    \/ StackSearchLogGroup
    \/ BuildSearchStrategy
    \/ SearchFailedLambdaRequestId
    \/ SearchOtherLambdaRequestId
    \/ SearchDocumentSpecific
    \/ SearchBroadFallback
    \/ SearchStepFunctionExecution

SpecLogGroups == InitLogGroups /\ [][NextLogGroups]_vars

\* ------------------------------------------------------------------------
\* cloudwatch_logs from its first line.  args.stack_name is the value of
\* AWS_STACK_NAME in the environment, "" when it is unset (line 543).
\* ------------------------------------------------------------------------
InitStack ==
    /\ pc = "stack_env"
    /\ \E sa \in SearchArgs, mg \in MaxLogGroupsArgs, n \in {4, 21},
          name \in {"", "stk"} :
          args = [tool |-> "cloudwatch_logs", document_id |-> DocumentId,
                  filter_pattern |-> sa[1], max_log_events |-> sa[2],
                  max_log_groups |-> mg, prefix_length |-> n,
                  stack_name |-> name]
    /\ dynamodb_response = NoResponse
    /\ groups_to_search = <<>>
    /\ document_start_time = None
    /\ document_end_time = None
    /\ lambda_function_to_request_id_map = <<>>
    /\ log_search_strategy = NoStrategy
    /\ all_results = <<>>
    /\ total_events = 0
    /\ ci = 0
    /\ gi = 0
    /\ now = Now0
    /\ describe_calls = 0
    /\ query_log = <<>>
    /\ report = NoReport
    /\ failures = NoFailures(TRUE)
    /\ previous_run = None

\* cloudwatch_logs, lines 543-549: AWS_STACK_NAME is read and, when it is
\* unset, the error report is returned
StackReadEnvironment ==
    /\ pc = "stack_env"
    /\ IF args.stack_name = ""
       THEN /\ report' = [returned |-> "stack_name_error",
                          error |-> "AWS_STACK_NAME not configured in environment",
                          events_found |-> 0]
            /\ pc' = "done"
       ELSE /\ pc' = "list_groups"
            /\ UNCHANGED report
    /\ UNCHANGED <<args, dynamodb_response, groups_to_search, document_start_time,
                   document_end_time, lambda_function_to_request_id_map,
                   log_search_strategy, all_results, total_events, ci, gi, now,
                   describe_calls, query_log>>
    /\ UNCHANGED <<failures, previous_run>>

NextStack ==
    \/ StackReadEnvironment
    \/ StackListLogGroups
    \/ StackSearchLogGroup

SpecStack == InitStack /\ [][NextStack]_vars

\* ------------------------------------------------------------------------
\* config/merge_utils.py: deep_update and get_diff_dict on nested dictionaries.
\* A value is a scalar, a list or a dictionary; a dictionary is a function
\* from its keys to values ({} is the function with the empty domain).
\* ------------------------------------------------------------------------
ScalarValue(v) == [kind |-> "scalar", scalar |-> v, items |-> <<>>, entries |-> <<>>]

ListValue(v) == [kind |-> "list", scalar |-> 0, items |-> v, entries |-> <<>>]

DictValue(d) == [kind |-> "dict", scalar |-> 0, items |-> <<>>, entries |-> d]

\* isinstance(value, dict)
IsDict(value) == value.kind = "dict"

EmptyDict == <<>>

\* deep_update that replaces every value of source, nested dictionaries too
RECURSIVE deep_update_Shallow(_, _)
deep_update_Shallow(target, source) ==
    [key \in DOMAIN target \cup DOMAIN source |->
        IF key \in DOMAIN source THEN source[key] ELSE target[key]]

\* lines 12-31: the dictionary target holds after deep_update(target, source),
\* which is also the dictionary returned (line 31 returns target)
RECURSIVE deep_update(_, _)
deep_update(target, source) ==
    [key \in DOMAIN target \cup DOMAIN source |->
        IF key \in DOMAIN source
        THEN IF /\ key \in DOMAIN target
                /\ IsDict(target[key])
                /\ IsDict(source[key])
             THEN DictValue(deep_update(target[key].entries, source[key].entries))
             ELSE source[key]
        ELSE target[key]]

\* get_diff_dict without the test `if nested_diff:` of line 65
RECURSIVE get_diff_dict_KeepsEmptyNested(_, _)
get_diff_dict_KeepsEmptyNested(base, modified) ==
    LET nested(key) == /\ key \in DOMAIN base
                       /\ IsDict(modified[key])
                       /\ IsDict(base[key])
        in_diff(key) == \/ key \notin DOMAIN base
                        \/ nested(key)
                        \/ modified[key] # base[key]
    IN  [key \in {k \in DOMAIN modified : in_diff(k)} |->
            IF nested(key)
            THEN DictValue(get_diff_dict_KeepsEmptyNested(base[key].entries,
                                                          modified[key].entries))
            ELSE modified[key]]

\* lines 34-72
RECURSIVE get_diff_dict(_, _)
get_diff_dict(base, modified) ==
    LET nested(key) == /\ key \in DOMAIN base
                       /\ IsDict(modified[key])
                       /\ IsDict(base[key])
        in_diff(key) ==
            IF key \notin DOMAIN base THEN TRUE
            ELSE IF nested(key)
            THEN get_diff_dict(base[key].entries, modified[key].entries) # EmptyDict
            ELSE modified[key] # base[key]
    IN  [key \in {k \in DOMAIN modified : in_diff(k)} |->
            IF nested(key)
            THEN DictValue(get_diff_dict(base[key].entries, modified[key].entries))
            ELSE modified[key]]

\* the dictionaries the two functions are applied to: three levels, with
\* scalars and lists as leaves; at the top level key "b" holds a leaf
ConfigKeys == {"a", "b"}

DictsOver(keys, values) == UNION {[ks -> values] : ks \in SUBSET keys}

ConfigLeaves == {ScalarValue(1), ScalarValue(2), ListValue(<<1>>)}

InnermostDicts == DictsOver({"a"}, {ScalarValue(1), ScalarValue(2)})

InnerDicts ==
    DictsOver(ConfigKeys, ConfigLeaves \cup {DictValue(d) : d \in InnermostDicts})

ConfigDicts ==
    {d \in DictsOver(ConfigKeys,
                     ConfigLeaves \cup {DictValue(e) : e \in InnerDicts}) :
        "b" \in DOMAIN d => ~IsDict(d["b"])}

InitMerge ==
    /\ pc = "merge"
    /\ \E base \in ConfigDicts, modified \in ConfigDicts :
          args = [base |-> base, modified |-> modified]
    /\ dynamodb_response = NoResponse
    /\ groups_to_search = <<>>
    /\ document_start_time = None
    /\ document_end_time = None
    /\ lambda_function_to_request_id_map = <<>>
    /\ log_search_strategy = NoStrategy
    /\ all_results = <<>>
    /\ total_events = 0
    /\ ci = 0
    /\ gi = 0
    /\ now = Now0
    /\ describe_calls = 0
    /\ query_log = <<>>
    /\ report = NoReport
    /\ failures = NoFailures(FALSE)
    /\ previous_run = None

\* diff = get_diff_dict(base, modified); result = deepcopy(base);
\* deep_update(result, diff): base and modified are left as they were
ApplyDiff ==
    /\ pc = "merge"
    /\ LET diff == get_diff_dict(args.base, args.modified)
       IN  report' = [returned |-> "diff", diff |-> diff,
                      result |-> deep_update(args.base, diff)]
    /\ pc' = "diff_done"
    /\ UNCHANGED <<args, dynamodb_response, groups_to_search, document_start_time,
                   document_end_time, lambda_function_to_request_id_map,
                   log_search_strategy, all_results, total_events, ci, gi, now,
                   describe_calls, query_log>>
    /\ UNCHANGED <<failures, previous_run>>

\* result = deep_update(target, source) with target = base and
\* source = modified: target is updated in place and returned
ApplyUpdate ==
    /\ pc = "merge"
    /\ args' = [args EXCEPT !.base = deep_update(args.base, args.modified)]
    /\ report' = [returned |-> "update", diff |-> EmptyDict, result |-> args'.base]
    /\ pc' = "update_done"
    /\ UNCHANGED <<dynamodb_response, groups_to_search, document_start_time,
                   document_end_time, lambda_function_to_request_id_map,
                   log_search_strategy, all_results, total_events, ci, gi, now,
                   describe_calls, query_log>>
    /\ UNCHANGED <<failures, previous_run>>

NextMerge == ApplyDiff \/ ApplyUpdate

SpecMerge == InitMerge /\ [][NextMerge]_vars

\* ------------------------------------------------------------------------
\* _build_filter_pattern on its own, as _search_cloudwatch_logs calls it
\* (lines 738-741).  A string is the sequence of its characters; None and ""
\* are both the empty sequence (both are falsy).
\* ------------------------------------------------------------------------
MaxPattern == 3

PatternChars == {"E", "R", ":"}

RECURSIVE StringsUpTo(_, _)
StringsUpTo(chars, n) ==
    IF n = 0 THEN {<<>>}
    ELSE LET shorter == StringsUpTo(chars, n - 1)
         IN  shorter \cup {Append(s, c) : s \in shorter, c \in chars}

BasePatterns == StringsUpTo(PatternChars, MaxPattern)

RequestIdArgs == {<<>>, <<"7">>, <<"7", ":">>}

\* base_pattern.replace(":", "")
RemoveColons(pattern) == SelectSeq(pattern, LAMBDA c : c # ":")

\* _build_filter_pattern without the replace of lines 805 and 813
_build_filter_pattern_Unsanitized(base_pattern, request_id) ==
    IF request_id # <<>> /\ base_pattern # <<>>
    THEN <<"[">> \o request_id \o <<",", " ">> \o base_pattern \o <<"]">>
    ELSE IF request_id # <<>> THEN request_id
    ELSE IF base_pattern # <<>> THEN base_pattern
    ELSE <<>>

\* lines 791-816
_build_filter_pattern(base_pattern, request_id) ==
    IF request_id # <<>> /\ base_pattern # <<>>
    THEN <<"[">> \o request_id \o <<",", " ">> \o RemoveColons(base_pattern) \o <<"]">>
    ELSE IF request_id # <<>> THEN request_id
    ELSE IF base_pattern # <<>> THEN RemoveColons(base_pattern)
    ELSE <<>>

InitFilterPattern ==
    /\ pc = "build_filter"
    /\ \E base_pattern \in BasePatterns, request_id \in RequestIdArgs :
          args = [base_pattern |-> base_pattern, request_id |-> request_id]
    /\ dynamodb_response = NoResponse
    /\ groups_to_search = <<>>
    /\ document_start_time = None
    /\ document_end_time = None
    /\ lambda_function_to_request_id_map = <<>>
    /\ log_search_strategy = NoStrategy
    /\ all_results = <<>>
    /\ total_events = 0
    /\ ci = 0
    /\ gi = 0
    /\ now = Now0
    /\ describe_calls = 0
    /\ query_log = <<>>
    /\ report = NoReport
    /\ failures = NoFailures(FALSE)
    /\ previous_run = None

\* lines 738-741: params["filterPattern"] is set only to a non-empty pattern
ApplyBuildFilterPattern ==
    /\ pc = "build_filter"
    /\ LET final_filter_pattern ==
               _build_filter_pattern(args.base_pattern, args.request_id)
       IN  report' = [returned |-> "filter",
                      final_filter_pattern |-> final_filter_pattern,
                      has_filterPattern |-> final_filter_pattern # <<>>]
    /\ pc' = "filter_built"
    /\ UNCHANGED <<args, dynamodb_response, groups_to_search, document_start_time,
                   document_end_time, lambda_function_to_request_id_map,
                   log_search_strategy, all_results, total_events, ci, gi, now,
                   describe_calls, query_log>>
    /\ UNCHANGED <<failures, previous_run>>

NextFilterPattern == ApplyBuildFilterPattern

SpecFilterPattern == InitFilterPattern /\ [][NextFilterPattern]_vars

\* ------------------------------------------------------------------------
\* _get_log_group_prefix on its own.  The name of a state machine is the
\* sequence of its characters, "W" standing for the text
\* "DocumentProcessingWorkflow"; an ARN is that name and whether the text
\* ":stateMachine:" precedes it.
\* ------------------------------------------------------------------------
MaxName == 3

NameChars == {"a", "-", "W"}

StateMachineArns ==
    {[marker |-> mk, name |-> n] : mk \in BOOLEAN, n \in StringsUpTo(NameChars, MaxName)}

StackName == <<"s", "t", "k">>

\* str.replace("-DocumentProcessingWorkflow", "")
RECURSIVE RemoveWorkflowSuffix(_)
RemoveWorkflowSuffix(name) ==
    IF Len(name) < 2 THEN name
    ELSE IF name[1] = "-" /\ name[2] = "W" THEN RemoveWorkflowSuffix(SubSeq(name, 3, Len(name)))
    ELSE <<name[1]>> \o RemoveWorkflowSuffix(Tail(name))

\* "-".join(name.split("-")[:-1]): the name up to its last hyphen
BeforeLastHyphen(name) ==
    LET last == CHOOSE i \in 1..Len(name) :
                    name[i] = "-" /\ \A j \in (i + 1)..Len(name) : name[j] # "-"
    IN  SubSeq(name, 1, last - 1)

\* the extraction that knows the -DocumentProcessingWorkflow convention only
_extract_prefix_from_state_machine_arn_WorkflowOnly(arn) ==
    IF ~arn.marker THEN <<>>
    ELSE IF \E i \in 1..(Len(arn.name) - 1) : arn.name[i] = "-" /\ arn.name[i + 1] = "W"
    THEN RemoveWorkflowSuffix(arn.name)
    ELSE <<>>

\* lines 862-881
_extract_prefix_from_state_machine_arn(arn) ==
    IF ~arn.marker THEN <<>>
    ELSE IF \E i \in 1..(Len(arn.name) - 1) : arn.name[i] = "-" /\ arn.name[i + 1] = "W"
    THEN RemoveWorkflowSuffix(arn.name)
    ELSE IF \E i \in 1..Len(arn.name) : arn.name[i] = "-"
    THEN BeforeLastHyphen(arn.name)
    ELSE <<>>

\* lines 903-929: the loop over the outputs of the first stack
RECURSIVE PrefixFromOutputs(_, _)
PrefixFromOutputs(outputs, stack_name) ==
    IF outputs = <<>>
    THEN [prefix_type |-> "main",
          log_group_prefix |-> <<"/aws/lambda/">> \o stack_name,
          nested_stack_name |-> <<>>]
    ELSE LET extracted_prefix ==
                 IF Head(outputs).OutputKey = "StateMachineArn"
                 THEN _extract_prefix_from_state_machine_arn(Head(outputs).OutputValue)
                 ELSE <<>>
         IN  IF extracted_prefix # <<>>
             THEN [prefix_type |-> "pattern",
                   log_group_prefix |-> <<"/">> \o extracted_prefix \o <<"/lambda">>,
                   nested_stack_name |-> extracted_prefix]
             ELSE PrefixFromOutputs(Tail(outputs), stack_name)

\* lines 884-936: describe_stacks answers `response`
_get_log_group_prefix(response, stack_name) ==
    IF response.raised
    THEN [prefix_type |-> "error", log_group_prefix |-> <<>>, nested_stack_name |-> <<>>]
    ELSE PrefixFromOutputs(response.outputs, stack_name)

\* what describe_stacks answers: an exception, no stack or a stack without
\* outputs, and stacks whose outputs hold a StateMachineArn
StackOutput(key, arn) == [OutputKey |-> key, OutputValue |-> arn]

UnmarkedArn == [marker |-> FALSE, name |-> <<"a">>]

StackResponses ==
    {[raised |-> TRUE, outputs |-> <<>>], [raised |-> FALSE, outputs |-> <<>>],
     [raised |-> FALSE, outputs |-> <<StackOutput("BucketName", UnmarkedArn)>>]}
    \cup {[raised |-> FALSE, outputs |-> <<StackOutput("StateMachineArn", arn)>>] :
             arn \in StateMachineArns}
    \cup {[raised |-> FALSE,
           outputs |-> <<StackOutput("BucketName", arn),
                         StackOutput("StateMachineArn", arn)>>] :
             arn \in StateMachineArns}
    \cup {[raised |-> FALSE,
           outputs |-> <<StackOutput("StateMachineArn", UnmarkedArn),
                         StackOutput("StateMachineArn", arn)>>] :
             arn \in StateMachineArns}

InitPrefix ==
    /\ pc = "get_prefix"
    /\ \E response \in StackResponses :
          args = [stack_name |-> StackName, describe_stacks |-> response]
    /\ dynamodb_response = NoResponse
    /\ groups_to_search = <<>>
    /\ document_start_time = None
    /\ document_end_time = None
    /\ lambda_function_to_request_id_map = <<>>
    /\ log_search_strategy = NoStrategy
    /\ all_results = <<>>
    /\ total_events = 0
    /\ ci = 0
    /\ gi = 0
    /\ now = Now0
    /\ describe_calls = 0
    /\ query_log = <<>>
    /\ report = NoReport
    /\ failures = NoFailures(FALSE)
    /\ previous_run = None

ApplyGetLogGroupPrefix ==
    /\ pc = "get_prefix"
    /\ report' = [returned |-> "prefix",
                  prefix_info |-> _get_log_group_prefix(args.describe_stacks,
                                                        args.stack_name)]
    /\ pc' = "prefix_done"
    /\ UNCHANGED <<args, dynamodb_response, groups_to_search, document_start_time,
                   document_end_time, lambda_function_to_request_id_map,
                   log_search_strategy, all_results, total_events, ci, gi, now,
                   describe_calls, query_log>>
    /\ UNCHANGED <<failures, previous_run>>

NextPrefix == ApplyGetLogGroupPrefix

SpecPrefix == InitPrefix /\ [][NextPrefix]_vars

\* ------------------------------------------------------------------------
\* The run from the trace on, when the trace store holds the spans
\* args.spans: one span per invocation, in start order, a worker may have
\* several.  lambda_function_to_request_id_map is a dict keyed by the
\* function name (lines 149-164): it holds one entry per function name, at the
\* position of the name's first insertion, with the request id of one of the
\* function's spans.
\* ------------------------------------------------------------------------
TraceSpans ==
    { <<>>,
      <<[fn |-> "fn-1", rid |-> "req-1"]>>,
      <<[fn |-> "fn-1", rid |-> "req-1"], [fn |-> "fn-2", rid |-> "req-2"]>>,
      <<[fn |-> "fn-1", rid |-> "req-1"], [fn |-> "fn-1", rid |-> "req-2"]>>,
      <<[fn |-> "fn-1", rid |-> "req-1"], [fn |-> "fn-2", rid |-> "req-2"],
        [fn |-> "fn-1", rid |-> "req-3"]>> }

\* the keys of the dict in insertion order
RECURSIVE DistinctWorkers(_, _)
DistinctWorkers(spans, seen) ==
    IF spans = <<>> THEN <<>>
    ELSE IF Head(spans).fn \in seen THEN DistinctWorkers(Tail(spans), seen)
    ELSE <<Head(spans).fn>> \o DistinctWorkers(Tail(spans), seen \cup {Head(spans).fn})

\* the dicts keyed by function name that can hold the spans
TraceDicts(spans) ==
    LET workers == DistinctWorkers(spans, {})
    IN  {d \in [1..Len(workers) -> Range(spans)] :
            \A i \in 1..Len(workers) : d[i].fn = workers[i]}

InitTrace ==
    /\ pc = "correlate"
    /\ \E sa \in SearchArgs, spans \in TraceSpans :
          args = [document_id |-> DocumentId, filter_pattern |-> sa[1],
                  max_log_events |-> sa[2], max_log_groups |-> MaxLogGroupsDefault,
                  spans |-> spans]
    /\ \E d \in ListedRecords :
          /\ d.XRayTraceId # ""
          /\ dynamodb_response =
                 [raised |-> FALSE, document_found |-> TRUE, document |-> d]
    /\ \E n \in 1..2 : groups_to_search = LogGroupsOfLength(n)
    /\ document_start_time = None
    /\ document_end_time = None
    /\ lambda_function_to_request_id_map = <<>>
    /\ log_search_strategy = NoStrategy
    /\ all_results = <<>>
    /\ total_events = 0
    /\ ci = 0
    /\ gi = 0
    /\ now = Now0
    /\ describe_calls = 1
    /\ query_log = <<>>
    /\ report = NoReport
    /\ failures = NoFailures(FALSE)
    /\ previous_run = None

\* lines 145-237 when the trace holds args.spans
CorrelateTrace ==
    /\ pc = "correlate"
    /\ \E map \in TraceDicts(args.spans) : PlanSearch([raised |-> FALSE, map |-> map])
    /\ UNCHANGED <<args, dynamodb_response, groups_to_search, all_results,
                   total_events, now, describe_calls, query_log>>
    /\ UNCHANGED <<failures, previous_run>>

NextTrace ==
    \/ CorrelateTrace
    \/ SearchFailedLambdaRequestId
    \/ SearchOtherLambdaRequestId
    \/ SearchDocumentSpecific
    \/ SearchBroadFallback
    \/ SearchStepFunctionExecution

SpecTrace == InitTrace /\ [][NextTrace]_vars

\* ------------------------------------------------------------------------
\* Properties of the run
\* ------------------------------------------------------------------------
Queries == 1..Len(query_log)

QueriesOfTier(t) == {i \in Queries : query_log[i].tier = t}

Reported == pc = "done" /\ report.returned = "report"

\* total microseconds of a timedelta (within 32 bits for |d| < 35 minutes)
TotalMicros(d) == d.s * Million + d.us

TwentyMinutes == [s |-> 1200, us |-> 0]

\* C1: the queries of a run are issued in ascending tier order 1, 2, 3, 4, 5:
\* a later query never belongs to a lower-numbered tier than an earlier one.
C1_TiersInAscendingOrder ==
    \A i, j \in Queries : i < j => query_log[i].tier <= query_log[j].tier

\* C2: once a query has added events to total_events, no query of a
\* lower-priority (higher-numbered) tier follows, and after the case-identifier
\* or broad-fallback search added events no execution-reference query follows.
C2_NoLowerTierAfterEvents ==
    \A i, j \in Queries :
        (i < j /\ query_log[i].events_added > 0)
        => /\ query_log[j].tier <= query_log[i].tier
           /\ (query_log[i].tier \in {4, 5} => query_log[j].tier # 3)

\* C3 as stated: a query that returned at least one filtered event is the last
\* query of the run.
C3_NoQueryAfterEvents ==
    \A i \in Queries : query_log[i].events_found > 0 => i = Len(query_log)

\* C3 as amended: after a query of tier 1 or 2 returned events, every later
\* query is for the same candidate (same tier, same request id) against another
\* container; and when the cascade is over every candidate that was queried has
\* been queried against every container of groups_to_search.
C3_OnlySameCandidateAfterEvents ==
    /\ \A i, j \in Queries :
          (i < j /\ query_log[i].tier \in {1, 2} /\ query_log[i].events_found > 0)
          => /\ query_log[j].tier = query_log[i].tier
             /\ query_log[j].request_id = query_log[i].request_id
             /\ query_log[j].log_group # query_log[i].log_group
    /\ Reported =>
          \A i \in Queries :
              query_log[i].tier \in {1, 2} =>
                  \A g \in Range(groups_to_search) :
                      \E j \in Queries :
                          /\ query_log[j].tier = query_log[i].tier
                          /\ query_log[j].request_id = query_log[i].request_id
                          /\ query_log[j].log_group = g

\* witness of C3: a tier 1 or 2 query found events and the same candidate was
\* then queried against a later container
C3_Witness ==
    /\ Reported
    /\ \E i, j \in Queries :
          /\ i < j
          /\ query_log[i].tier \in {1, 2}
          /\ query_log[i].events_found > 0
          /\ query_log[j].request_id = query_log[i].request_id

\* C4: when the primary-failure and the other-worker tiers were both searched
\* and every one of their queries returned zero events, the case-identifier
\* search is issued, and the broad-fallback search after it when the
\* case-identifier search added nothing, before the report is returned.
C4_FallbackAfterEmptyRequestIdTiers ==
    (/\ Reported
     /\ QueriesOfTier(1) # {}
     /\ QueriesOfTier(2) # {}
     /\ \A i \in QueriesOfTier(1) \cup QueriesOfTier(2) :
           query_log[i].events_found = 0)
    => /\ QueriesOfTier(4) # {}
       /\ (\A i \in QueriesOfTier(4) : query_log[i].events_added = 0)
              => QueriesOfTier(5) # {}

\* C5: when the tracking store answers that the document is not found, the run
\* is over with the not-found report (document id, error reason, events_found
\* 0) and neither describe_log_groups nor filter_log_events was called.
C5_NotFoundShortCircuits ==
    (/\ pc \notin {"idle", "get_record"}
     /\ ~dynamodb_response.raised
     /\ ~dynamodb_response.document_found)
    => /\ pc = "done"
       /\ report.returned = "document_not_found"
       /\ report.analysis_type = "document_not_found"
       /\ report.document_id = args.document_id
       /\ report.error # ""
       /\ report.events_found = 0
       /\ describe_calls = 0
       /\ query_log = <<>>

C5_Witness ==
    /\ pc = "done"
    /\ ~dynamodb_response.raised
    /\ ~dynamodb_response.document_found
    /\ report.returned = "document_not_found"

\* C6: the primary-failure tier is populated only for a FAILED record with a
\* non-empty trace map; it then holds exactly the request id of the last entry
\* of the map, every tier-1 query carries that request id, and when exactly one
\* tier-1 query returned one event and the others none, the total is 1 and no
\* query of tiers 2-5 is issued.
C6_PrimaryFailureTier ==
    LET failed == log_search_strategy.failed_lambda_request_ids
        map == lambda_function_to_request_id_map
        hits == {i \in QueriesOfTier(1) : query_log[i].events_found > 0}
    IN  /\ failed # <<>> =>
              /\ document_record.Status = "FAILED"
              /\ Len(map) > 0
              /\ failed = <<map[Len(map)].rid>>
        /\ \A i \in QueriesOfTier(1) :
              /\ failed # <<>>
              /\ query_log[i].request_id = map[Len(map)].rid
        /\ (/\ Cardinality(hits) = 1
            /\ \A i \in hits : query_log[i].events_found = 1
            /\ pc # "search_failed")
           => /\ total_events = 1
              /\ \A i \in Queries : query_log[i].tier = 1
              /\ pc = "done"
              /\ report.returned = "report"
              /\ report.total_events_found = 1

\* witness of C6: two workers in the trace, the last one's request id found
\* one event in one container and nothing in another
C6_Witness ==
    /\ Reported
    /\ Len(lambda_function_to_request_id_map) >= 2
    /\ Len(groups_to_search) >= 2
    /\ Cardinality({i \in QueriesOfTier(1) : query_log[i].events_found = 1}) = 1
    /\ Cardinality({i \in QueriesOfTier(1) : query_log[i].events_found = 0}) >= 1
    /\ report.total_events_found = 1

\* C7 as stated: the execution-reference tier is populated only if the trace
\* map holds no request id at all; with a request id in tier 1 or tier 2 the
\* tier is empty and no execution-reference query is issued.
C7_ExecutionTierOnlyWithoutRequestIds ==
    /\ log_search_strategy.step_function_execution_patterns # <<>>
          => lambda_function_to_request_id_map = <<>>
    /\ (\/ log_search_strategy.failed_lambda_request_ids # <<>>
        \/ log_search_strategy.other_lambda_request_ids # <<>>)
          => /\ log_search_strategy.step_function_execution_patterns = <<>>
             /\ QueriesOfTier(3) = {}

\* C7 as amended: the execution-reference tier is populated only if the record
\* has an ExecutionArn and the primary-failure tier is empty; with a request id
\* in tier 1 the tier is empty and no execution-reference query is issued.
C7_ExecutionTierOnlyWithoutFailedRequestIds ==
    /\ log_search_strategy.step_function_execution_patterns # <<>>
          => /\ log_search_strategy.failed_lambda_request_ids = <<>>
             /\ document_record.ExecutionArn # <<>>
    /\ log_search_strategy.failed_lambda_request_ids # <<>>
          => /\ log_search_strategy.step_function_execution_patterns = <<>>
             /\ QueriesOfTier(3) = {}
    /\ QueriesOfTier(3) # {}
          => log_search_strategy.step_function_execution_patterns # <<>>

\* witness of C7: a FAILED record with an ExecutionArn and request ids whose
\* cascade ran to its end, queries included
C7_Witness ==
    /\ Reported
    /\ log_search_strategy.failed_lambda_request_ids # <<>>
    /\ document_record.ExecutionArn # <<>>
    /\ query_log # <<>>
    /\ total_events = 0

\* C8: for a record without trace id (with or without ExecutionArn) the trace
\* map is empty, no tier 1 or tier 2 query is issued and the first query of the
\* run is the case-identifier query.
C8_NoTraceStartsWithCaseIdentifier ==
    (/\ Reported
     /\ document_record.XRayTraceId = ""
     /\ Len(groups_to_search) > 0)
    => /\ lambda_function_to_request_id_map = <<>>
       /\ QueriesOfTier(1) \cup QueriesOfTier(2) = {}
       /\ query_log # <<>>
       /\ query_log[1].tier = 4
       /\ query_log[1].filter_pattern = DocIdentifier(args.document_id)

\* C9: with both instants in the record the window is (start - buffer,
\* end + buffer), where buffer is 2 minutes for a duration of 20 minutes or
\* more and a tenth of the duration (to the microsecond) below that.
C9_BufferedWindow ==
    pc = "window_done" =>
        LET start == document_record.InitialEventTime.at
            end == document_record.CompletionTime.at
            duration == DtDiff(end, start)
            window == SearchWindow(document_start_time, document_end_time, now)
            before == DtDiff(start, window.start)
            after == DtDiff(window.end, end)
        IN  /\ document_start_time # None
            /\ document_end_time # None
            /\ before = after
            /\ IF TdLess(duration, TwentyMinutes)
               THEN /\ 10 * TotalMicros(before) - TotalMicros(duration) <= 5
                    /\ TotalMicros(duration) - 10 * TotalMicros(before) <= 5
               ELSE before = [s |-> 120, us |-> 0]
            /\ (TdLess(duration, TwentyMinutes) /\ TotalMicros(duration) % 10 = 0)
                  => 10 * TotalMicros(before) = TotalMicros(duration)

\* witness of C9: a duration of exactly 20 minutes, buffered by 2 minutes
C9_Witness ==
    /\ pc = "window_done"
    /\ DtDiff(document_record.CompletionTime.at,
              document_record.InitialEventTime.at) = TwentyMinutes
    /\ DtDiff(document_record.InitialEventTime.at, document_start_time[1])
           = [s |-> 120, us |-> 0]
    /\ DtDiff(document_end_time[1], document_record.CompletionTime.at)
           = [s |-> 120, us |-> 0]

\* C10: the window of every query has window_end >= window_start, and with
\* both instants known the padding before the start equals the padding after
\* the end.
C10_WindowOrderedAndSymmetric ==
    \A i \in Queries :
        /\ ~TdLess(query_log[i].end_time, query_log[i].start_time)
        /\ (/\ document_record.InitialEventTime.kind = "iso"
            /\ document_record.CompletionTime.kind = "iso")
           => DtDiff(document_record.InitialEventTime.at, query_log[i].start_time)
                  = DtDiff(query_log[i].end_time, document_record.CompletionTime.at)

\* C11: the window in the report (document_processing_time_window) is the
\* window of every filter_log_events call of the run, whether both instants,
\* one of them or none is known.
C11_ReportedWindowIsSearchedWindow ==
    Reported =>
        \A i \in Queries :
            /\ report.document_processing_time_window.start
                   = Some(query_log[i].start_time)
            /\ report.document_processing_time_window.end
                   = Some(query_log[i].end_time)

\* tiers of the search types a report lists in `results`
TierOfSearchType(search_type) ==
    CASE search_type = "failed_lambda_request_id" -> 1
      [] search_type = "other_lambda_request_id" -> 2
      [] search_type = "step_function_execution_fallback" -> 3
      [] search_type = "document_specific_error_search" -> 4
      [] search_type = "broad_error_search_fallback" -> 5

\* what the report tells about a tier having been reached
MarkedReached(r, tier) ==
    \/ \E i \in 1..Len(r.results) :
           TierOfSearchType(r.results[i].search_type) = tier
    \/ /\ "reached" \in DOMAIN r.log_search_strategy
       /\ tier \in r.log_search_strategy.reached

\* C12: the report lists the strategy of five tiers and marks a tier reached
\* exactly when a query of that tier was issued, also with zero events.
C12_ReportMarksReachedTiers ==
    Reported =>
        /\ Cardinality(DOMAIN report.log_search_strategy) = 5
        /\ \A tier \in 1..5 :
              MarkedReached(report, tier) <=> QueriesOfTier(tier) # {}

\* C13: one call of _search_cloudwatch_logs returns at most max_events events,
\* and they are the first raw events, in store order, that
\* _should_exclude_log_event does not exclude.
C13_AtMostMaxEvents ==
    pc = "search_done" =>
        LET raw == query_log[1].events
            kept == SelectSeq(raw,
                        LAMBDA e : ~_should_exclude_log_event(e, args.filter_pattern))
        IN  /\ report.events_found <= args.max_log_events
            /\ report.events = Take(kept, args.max_log_events)

\* C14: a second run with the same arguments against the same stores returns
\* the report of the first run and issues the same sequence of
\* filter_log_events calls, also when the window is derived from the clock.
C14_SecondRunIdentical ==
    (Replaying /\ pc = "done")
    => /\ report = previous_run[1].report
       /\ query_log = previous_run[1].query_log

RECURSIVE SumEventsFound(_)
SumEventsFound(results) ==
    IF results = <<>> THEN 0
    ELSE Head(results).events_found + SumEventsFound(Tail(results))

\* C15: whatever a collaborator raises, the run ends with a report: the
\* report of the cascade, carrying the events found so far, or a report with
\* an event count of 0; an exception is never handed to the caller, and a run
\* that is not over always has a next step.
C15_AlwaysReturnsReport ==
    /\ pc # "done" => ENABLED Next
    /\ pc = "done" =>
          /\ report.returned \in {"document_not_found", "prefix_error",
                                  "no_log_groups", "report", "exception"}
          /\ report.returned = "report" =>
                /\ report.total_events_found = total_events
                /\ report.total_events_found = SumEventsFound(report.results)
                /\ report.results = all_results
          /\ report.returned # "report" => report.events_found = 0
          /\ dynamodb_response.raised => report.returned = "exception"

\* witness of C15: a log-store call failed after events had been found, and
\* the run returned the report with those events
C15_Witness ==
    /\ Reported
    /\ failures.last # "none"
    /\ total_events > 0
    /\ report.total_events_found = total_events

\* C16: a record with an unparseable InitialEventTime or CompletionTime is
\* searched like a record without that instant: the run returns the normal
\* report and its queries use the lookback window.
C16_MalformedTimestampIsAbsent ==
    (/\ pc = "done"
     /\ dynamodb_response.document_found
     /\ \/ document_record.InitialEventTime.kind = "invalid"
        \/ document_record.CompletionTime.kind = "invalid"
     /\ groups_to_search # <<>>)
    => /\ Reported
       /\ report.document_processing_time_window.start = None
       /\ \A i \in Queries :
             DtDiff(query_log[i].end_time, query_log[i].start_time) = Lookback

\* the position the cascade takes after a query that returned nothing
AfterEmptyAnswer ==
    LET st == log_search_strategy
        G == Len(groups_to_search)
    IN  CASE pc = "search_failed" -> AfterFailed(st, G, total_events, ci, gi)
          [] pc = "search_other" -> AfterOther(st, G, total_events, ci, gi)
          [] pc = "search_document" -> AfterDocument(st, G, total_events, FALSE, gi)
          [] pc = "search_broad" -> AfterBroad(st, G, FALSE, gi)
          [] pc = "search_execution" -> AfterExecution(st, G, total_events, ci, gi)
          [] OTHER -> ReturnPos

\* C17: a step whose filter_log_events call failed adds no event and no
\* result, leaves the run going exactly as an empty answer would, and in the
\* request-id tiers the same candidate is queried against the next container.
C17_FailedQueryCountsAsEmpty ==
    [][(Len(query_log') = Len(query_log) + 1 /\ failures'.last # "none")
       => /\ total_events' = total_events
          /\ all_results' = all_results
          /\ query_log'[Len(query_log')].events_found = 0
          /\ IF AfterEmptyAnswer.pc = "return"
             THEN pc' = "done" /\ report'.returned = "report"
             ELSE /\ pc' = AfterEmptyAnswer.pc
                  /\ ci' = AfterEmptyAnswer.ci
                  /\ gi' = AfterEmptyAnswer.gi
          /\ (pc \in {"search_failed", "search_other"}
                  /\ gi < Len(groups_to_search))
                => pc' = pc /\ ci' = ci /\ gi' = gi + 1]_vars

\* witness of C17: the query of a candidate against the first container failed
\* and the same candidate is up for the second container
C17_Witness ==
    /\ failures.last # "none"
    /\ pc \in {"search_failed", "search_other"}
    /\ gi = 2
    /\ Len(query_log) >= 1
    /\ query_log[Len(query_log)].log_group = groups_to_search[1]

\* C18: the report of a run whose queries all failed differs from the report
\* the same run returns when every query succeeds and matches no event (by
\* C17 that run issues the same queries and ends with no result).
C18_FailureDistinctFromNoEvidence ==
    (Reported /\ query_log # <<>> /\ failures.every)
    => report # FinalReport(args.document_id, document_record,
                            lambda_function_to_request_id_map,
                            log_search_strategy, document_start_time,
                            document_end_time, groups_to_search, <<>>, 0)

\* the candidate a query was issued for
CandidateOf(entry) ==
    IF entry.tier \in {1, 2} THEN entry.request_id ELSE entry.filter_pattern

\* the (tier, container, candidate) of the query the run issues next, if any
PendingQuery ==
    CASE pc = "search_failed" ->
            Some(<<1, groups_to_search[gi],
                   log_search_strategy.failed_lambda_request_ids[ci]>>)
      [] pc = "search_other" ->
            Some(<<2, groups_to_search[gi],
                   log_search_strategy.other_lambda_request_ids[ci]>>)
      [] pc = "search_execution" ->
            Some(<<3, groups_to_search[gi],
                   log_search_strategy.step_function_execution_patterns[ci]>>)
      [] pc = "search_document" ->
            Some(<<4, groups_to_search[gi], DocIdentifier(args.document_id)>>)
      [] pc = "search_broad" ->
            Some(<<5, groups_to_search[gi], args.filter_pattern>>)
      [] OTHER -> None

PairOf(entry) == <<entry.tier, entry.log_group, CandidateOf(entry)>>

\* C19: after the first query of a (candidate, container) pair failed with a
\* transient error the next query is for the same pair; after a failure that
\* is not transient it is not.
C19_TransientFailureIsRetried ==
    LET n == Len(query_log)
        first_attempt ==
            \A i \in 1..(n - 1) : PairOf(query_log[i]) # PairOf(query_log[n])
    IN  /\ (failures.last = "transient" /\ n > 0 /\ first_attempt)
              => PendingQuery = Some(PairOf(query_log[n]))
        /\ (failures.last = "permanent" /\ n > 0)
              => PendingQuery # Some(PairOf(query_log[n]))

\* the deadline of the caller: two clock ticks after the run started
CallerDeadline == DtPlus(Now0, [s |-> 2, us |-> 0])

\* the clock reading at the i-th filter_log_events call of a run started at
\* Now0 (the clock advances by Tick with every call)
IssuedAt(i) == DtPlus(Now0, [s |-> i - 1, us |-> 0])

\* C20: no filter_log_events call is issued after the caller's deadline, and
\* a run the deadline cut short returns a report marked incomplete.
C20_DeadlineStopsCascade ==
    /\ \A i \in Queries : ~TdLess(CallerDeadline, IssuedAt(i))
    /\ (Reported /\ TdLess(CallerDeadline, now))
          => /\ "incomplete" \in DOMAIN report
             /\ report.incomplete

\* C21: for an empty prefix or one shorter than 5 characters
\* _get_cloudwatch_log_groups calls describe_log_groups not at all and returns
\* no log group, and the tool that called it returns without any
\* filter_log_events call.
C21_ShortPrefixIsRejected ==
    (pc # "list_groups" /\ args.prefix_length < 5)
    => /\ describe_calls = 0
       /\ groups_to_search = <<>>
       /\ query_log = <<>>
       /\ pc = "done"
       /\ report.returned = "no_log_groups"
       /\ report.events_found = 0

\* witness of C21: a prefix of 4 characters was handed over and the tool
\* returned
C21_Witness ==
    /\ pc = "done"
    /\ args.prefix_length = 4
    /\ report.returned = "no_log_groups"
    /\ describe_calls = 0

\* no key of base is deleted in modified, at any level where both values are
\* dictionaries
RECURSIVE NoKeyDeleted(_, _)
NoKeyDeleted(base, modified) ==
    \A key \in DOMAIN base :
        /\ key \in DOMAIN modified
        /\ (IsDict(base[key]) /\ IsDict(modified[key]))
              => NoKeyDeleted(base[key].entries, modified[key].entries)

RECURSIVE OnlyNewOrChanged(_, _, _)
OnlyNewOrChanged(diff, base, modified) ==
    \A key \in DOMAIN diff :
        /\ key \in DOMAIN modified
        /\ \/ key \notin DOMAIN base
           \/ modified[key] # base[key]
        /\ IF key \in DOMAIN base /\ IsDict(base[key]) /\ IsDict(modified[key])
           THEN /\ IsDict(diff[key])
                /\ diff[key].entries # EmptyDict
                /\ OnlyNewOrChanged(diff[key].entries, base[key].entries,
                                    modified[key].entries)
           ELSE diff[key] = modified[key]

\* every entry of modified is in base with the same value
RECURSIVE NoDifferingEntry(_, _)
NoDifferingEntry(base, modified) ==
    \A key \in DOMAIN modified :
        /\ key \in DOMAIN base
        /\ IF IsDict(base[key]) /\ IsDict(modified[key])
           THEN NoDifferingEntry(base[key].entries, modified[key].entries)
           ELSE modified[key] = base[key]

\* C23: get_diff_dict(base, modified) has only keys of modified, each new or
\* with a value that differs from base; get_diff_dict(x, x) is empty; keys
\* removed from base never appear; a nested dictionary with no differing
\* entry is omitted.
C23_DiffHoldsOnlyChanges ==
    pc = "diff_done"
    => /\ OnlyNewOrChanged(report.diff, args.base, args.modified)
       /\ args.base = args.modified => report.diff = EmptyDict
       /\ \A key \in DOMAIN args.base \ DOMAIN args.modified :
              key \notin DOMAIN report.diff
       /\ \A key \in DOMAIN args.base \cap DOMAIN args.modified :
              (/\ IsDict(args.base[key])
               /\ IsDict(args.modified[key])
               /\ NoDifferingEntry(args.base[key].entries,
                                   args.modified[key].entries))
              => key \notin DOMAIN report.diff

\* witness of C23: base has a key modified lacks and a nested dictionary of
\* which modified keeps a part unchanged, next to a changed key
C23_Witness ==
    /\ pc = "diff_done"
    /\ DOMAIN args.base = {"a", "b"}
    /\ DOMAIN args.modified = {"a"}
    /\ IsDict(args.base["a"]) /\ IsDict(args.modified["a"])
    /\ DOMAIN args.base["a"].entries = {"a", "b"}
    /\ DOMAIN args.modified["a"].entries = {"a"}
    /\ args.modified["a"].entries["a"] = args.base["a"].entries["a"]
    /\ IsDict(args.base["a"].entries["a"])
    /\ report.diff = EmptyDict

\* the dictionary deep_update leaves in target: every key of source merged
\* where both values are dictionaries and replaced otherwise, every other key
\* of target kept
RECURSIVE IsUpdateOf(_, _, _)
IsUpdateOf(result, target, source) ==
    /\ DOMAIN result = DOMAIN target \cup DOMAIN source
    /\ \A key \in DOMAIN source :
          IF key \in DOMAIN target /\ IsDict(target[key]) /\ IsDict(source[key])
          THEN /\ IsDict(result[key])
               /\ IsUpdateOf(result[key].entries, target[key].entries,
                             source[key].entries)
          ELSE result[key] = source[key]
    /\ \A key \in DOMAIN target \ DOMAIN source : result[key] = target[key]

C25_OtherWorkerTier ==
    LET values == MapValues(lambda_function_to_request_id_map)
        failed == log_search_strategy.failed_lambda_request_ids
        other == log_search_strategy.other_lambda_request_ids
        position(rid) == CHOOSE i \in 1..Len(values) : values[i] = rid
    IN  /\ Range(other) = Range(values) \ Range(failed)
        /\ \A i, j \in 1..Len(other) :
              i < j => position(other[i]) < position(other[j])
        /\ \A q \in QueriesOfTier(2) :
              \E i \in 1..Min(3, Len(other)) : query_log[q].request_id = other[i]
        /\ \A q1 \in QueriesOfTier(1), q2 \in QueriesOfTier(2) :
              query_log[q1].request_id # query_log[q2].request_id

\* witness of C25: four request ids are left for tier 2; the first three were
\* queried without a match and the run went on to a later tier
C25_Witness ==
    /\ Reported
    /\ Len(log_search_strategy.other_lambda_request_ids) > 3
    /\ \A i \in 1..3 : \E q \in QueriesOfTier(2) :
          query_log[q].request_id = log_search_strategy.other_lambda_request_ids[i]
    /\ QueriesOfTier(4) # {}

\* C26: every event of a result with search_type
\* document_specific_error_search holds one of the error terms; a log group
\* whose matches of the case identifier hold none adds no result and nothing
\* to the total, and the cascade goes on after it.
C26_CaseIdentifierResultsHoldErrorTerms ==
    /\ \A i \in 1..Len(all_results) :
          all_results[i].search_type = "document_specific_error_search"
          => /\ all_results[i].events # <<>>
             /\ \A k \in 1..Len(all_results[i].events) :
                   all_results[i].events[k].error_term
    /\ \A q \in QueriesOfTier(4) :
          (\A k \in 1..Len(query_log[q].events) : ~query_log[q].events[k].error_term)
          => /\ query_log[q].events_added = 0
             /\ \A i \in 1..Len(all_results) :
                   all_results[i].search_type = "document_specific_error_search"
                   => all_results[i].log_group # query_log[q].log_group
             /\ pc = "done" => q < Len(query_log)
    /\ Reported => report.results = all_results

\* witness of C26: a log group matched the case identifier without any error
\* term, the next log group gave the events of the report
C26_Witness ==
    /\ Reported
    /\ \E q \in QueriesOfTier(4) :
          /\ query_log[q].events_found > 0
          /\ query_log[q].events_added = 0
    /\ Len(report.results) = 1
    /\ report.results[1].search_type = "document_specific_error_search"
    /\ report.total_events_found = Len(report.results[1].events)

\* C27 as stated: every event the report returns from the broad-fallback tier
\* carries the caveat itself, and no event of another tier carries it.
C27_EveryBroadEventCarriesCaveat ==
    Reported =>
        \A i \in 1..Len(report.results) :
            \A k \in 1..Len(report.results[i].events) :
                ("warning" \in DOMAIN report.results[i].events[k])
                <=> report.results[i].search_type = "broad_error_search_fallback"

\* C27: the entry of `results` that holds the events of the broad-fallback
\* tier carries the warning "May include errors from other concurrent
\* documents", the entries of the other tiers carry no warning, and no event
\* carries one.
C27_BroadResultCarriesCaveat ==
    Reported =>
        \A i \in 1..Len(report.results) :
            /\ IF report.results[i].search_type = "broad_error_search_fallback"
               THEN /\ "warning" \in DOMAIN report.results[i]
                    /\ report.results[i].warning
                           = "May include errors from other concurrent documents"
               ELSE "warning" \notin DOMAIN report.results[i]
            /\ \A k \in 1..Len(report.results[i].events) :
                  "warning" \notin DOMAIN report.results[i].events[k]

\* witness of C27: a report with events of the broad-fallback tier and events
\* of the execution-reference tier after them
C27_Witness ==
    /\ Reported
    /\ Len(report.results) >= 2
    /\ report.results[1].search_type = "broad_error_search_fallback"
    /\ report.results[1].events # <<>>
    /\ report.results[2].search_type # "broad_error_search_fallback"

\* C28: when the record lacks InitialEventTime, CompletionTime or both, every
\* filter_log_events call of the run uses the window from 24 hours before
\* the instant of the call to that instant; no call uses the one known bound.
C28_LookbackWindowWhenBoundMissing ==
    (\/ document_record.InitialEventTime.kind = "absent"
     \/ document_record.CompletionTime.kind = "absent")
    => \A i \in Queries :
          /\ query_log[i].end_time = IssuedAt(i)
          /\ query_log[i].start_time
                = DtMinus(IssuedAt(i), [s |-> 24 * 3600, us |-> 0])

\* witness of C28: the record holds InitialEventTime only and the run issued
\* at least two queries
C28_Witness ==
    /\ Reported
    /\ document_record.InitialEventTime.kind = "iso"
    /\ document_record.CompletionTime.kind = "absent"
    /\ document_start_time # None
    /\ Len(query_log) >= 2
    /\ query_log[2].end_time # query_log[1].end_time

\* part occurs in whole as a run of consecutive characters
Contains(whole, part) ==
    \E i \in 0..(Len(whole) - Len(part)) :
        SubSeq(whole, i + 1, i + Len(part)) = part

\* C29 as stated: _build_filter_pattern returns one filter that contains the
\* request id and the base pattern when both are non-empty, the request id
\* alone or the base pattern alone when only one is present, and the empty
\* filter when neither is; only then is the query sent without filter pattern.
C29_FilterHoldsBasePattern ==
    pc = "filter_built" =>
        LET base == args.base_pattern
            rid == args.request_id
            final == report.final_filter_pattern
        IN  /\ (rid # <<>> /\ base # <<>>)
                  => Contains(final, rid) /\ Contains(final, base)
            /\ (rid # <<>> /\ base = <<>>) => final = rid
            /\ (rid = <<>> /\ base # <<>>) => final = base
            /\ (rid = <<>> /\ base = <<>>) => final = <<>>
            /\ ~report.has_filterPattern <=> (rid = <<>> /\ base = <<>>)

\* C29: with s the base pattern without its colons, _build_filter_pattern
\* returns "[request_id, s]" when both are non-empty, the request id alone
\* when only it is present, s when only the base pattern is present and ""
\* when neither is; the query carries no filter pattern exactly when the
\* returned filter is empty.
C29_FilterHoldsSanitizedPattern ==
    pc = "filter_built" =>
        LET base == args.base_pattern
            rid == args.request_id
            final == report.final_filter_pattern
            s == SelectSeq(base, LAMBDA c : c # ":")
        IN  /\ (rid # <<>> /\ base # <<>>)
                  => final = <<"[">> \o rid \o <<",", " ">> \o s \o <<"]">>
            /\ (rid # <<>> /\ base = <<>>) => final = rid
            /\ (rid = <<>> /\ base # <<>>) => final = s
            /\ (rid = <<>> /\ base = <<>>) => final = <<>>
            /\ ~report.has_filterPattern <=> final = <<>>
            /\ ~report.has_filterPattern <=> (rid = <<>> /\ s = <<>>)

\* witness of C29: a request id and a base pattern with a colon were combined
C29_Witness ==
    /\ pc = "filter_built"
    /\ args.request_id = <<"7">>
    /\ args.base_pattern = <<"E", "R", ":">>
    /\ report.final_filter_pattern = <<"[", "7", ",", " ", "E", "R", "]">>
    /\ report.has_filterPattern

\* C30: the limit _search_cloudwatch_logs sends is 5 x max_events exactly for
\* the filter patterns "[ERROR]", "[WARN]", "ERROR:", "WARN:", "Exception"
\* and "Failed", which are exactly the patterns for which
\* _should_exclude_log_event drops "[INFO]" and lifecycle lines; for every
\* other pattern, the default "ERROR" among them, it is max_events.
C30_RaisedLimitForErrorMarkers ==
    pc = "search_done" =>
        LET pattern == args.filter_pattern
            marker == pattern \in {"[ERROR]", "[WARN]", "ERROR:", "WARN:",
                                   "Exception", "Failed"}
        IN  /\ report.limit = IF marker THEN 5 * args.max_log_events
                                        ELSE args.max_log_events
            /\ marker <=> _should_exclude_log_event(InfoLine, pattern)
            /\ marker <=> _should_exclude_log_event(LifecycleLine, pattern)
            /\ \A k \in 1..Len(report.events) :
                  marker => report.events[k].prefix \notin {"[INFO]", "REPORT"}
            /\ pattern = "ERROR" => report.limit = args.max_log_events

\* witness of C30: a call with a recognised marker and a raised limit that
\* dropped an "[INFO]" line of the answer
C30_Witness ==
    /\ pc = "search_done"
    /\ args.filter_pattern = "ERROR:"
    /\ args.max_log_events = 2
    /\ report.limit = 10
    /\ query_log[1].events = <<InfoLine, ErrorLine>>
    /\ report.events = <<ErrorLine>>

\* the raw events filter_log_events answered to the call
RawEventsOfCall == Range(query_log[1].events)

\* C31: _should_exclude_log_event excludes every message longer than 1000
\* characters whatever the filter pattern, and a message of exactly 1000
\* characters that nothing else excludes is kept.
C31_LongMessagesExcluded ==
    pc = "search_done" =>
        /\ \A e \in RawEventsOfCall :
              /\ e.len > 1000 => _should_exclude_log_event(e, args.filter_pattern)
              /\ (e.len = 1000 /\ ~e.denied /\ e.prefix = "")
                    => ~_should_exclude_log_event(e, args.filter_pattern)
        /\ \A k \in 1..Len(report.events) : report.events[k].len <= 1000

\* witness of C31: the answer held a message of 1001 characters and one of
\* 1000; the call returned the second only
C31_Witness ==
    /\ pc = "search_done"
    /\ args.filter_pattern = "ERROR"
    /\ args.max_log_events = 2
    /\ query_log[1].events = <<LongLine, LimitLine>>
    /\ report.events = <<LimitLine>>

\* C32: under an error-marker filter pattern _should_exclude_log_event drops
\* every message that begins with [INFO], INIT_START, START, END or REPORT,
\* and keeps every message of at most 1000 characters that holds an error
\* keyword, also one that begins with a lifecycle prefix or holds a
\* denylisted substring.
C32_ErrorKeywordLinesKept ==
    (pc = "search_done" /\ args.filter_pattern \in ErrorPatternMarkers) =>
        \A e \in RawEventsOfCall :
            /\ e.prefix \in {"[INFO]", "INIT_START", "START", "END", "REPORT"}
                  => _should_exclude_log_event(e, args.filter_pattern)
            /\ (e.error_term /\ e.len <= 1000)
                  => ~_should_exclude_log_event(e, args.filter_pattern)

\* the name a StateMachineArn yields under the two naming conventions: the
\* name without "-DocumentProcessingWorkflow" when it holds that text, else
\* the name up to its last hyphen; empty without ":stateMachine:" or hyphen
YieldedName(arn) ==
    LET n == arn.name
        workflow == {i \in 1..(Len(n) - 1) : n[i] = "-" /\ n[i + 1] = "W"}
        hyphens == {i \in 1..Len(n) : n[i] = "-"}
        max(S) == CHOOSE i \in S : \A j \in S : j <= i
        kept == {i \in 1..Len(n) : i \notin workflow /\ (i - 1) \notin workflow}
        pick[i \in 0..Len(n)] ==
            IF i = 0 THEN <<>>
            ELSE IF i \in kept THEN Append(pick[i - 1], n[i]) ELSE pick[i - 1]
    IN  IF ~arn.marker THEN <<>>
        ELSE IF workflow # {} THEN pick[Len(n)]
        ELSE IF hyphens # {} THEN SubSeq(n, 1, max(hyphens) - 1)
        ELSE <<>>

QueriedLogGroups == {query_log[i].log_group : i \in Queries}

\* C34: with max_log_groups >= 0 the log groups that receive a query are at
\* most max_log_groups and form a prefix of the list describe_log_groups
\* answered; log_groups_searched in the report is the length of the capped
\* list.
C34_QueriedGroupsWithinCap ==
    /\ Cardinality(QueriedLogGroups) <= args.max_log_groups
    /\ Len(groups_to_search) <= args.max_log_groups
    /\ \A i \in 1..Len(groups_to_search) : groups_to_search[i] = LogGroupNames[i]
    /\ \E k \in 0..Len(groups_to_search) :
          QueriedLogGroups = {groups_to_search[i] : i \in 1..k}
    /\ (pc = "done" /\ report.returned \in {"report", "stack_report"})
          => report.log_groups_searched = Len(groups_to_search)

\* witness of C34: cloudwatch_logs with max_log_groups = 2 queried two log
\* groups and reports two searched
C34_Witness ==
    /\ pc = "done"
    /\ args.tool = "cloudwatch_logs"
    /\ args.max_log_groups = 2
    /\ report.returned = "stack_report"
    /\ Cardinality(QueriedLogGroups) = 2
    /\ report.log_groups_searched = 2

\* C35: when the trace holds two invocations of one worker, the trace map
\* holds two entries for that worker and both request ids are candidates of
\* tier 1 or tier 2.
C35_RepeatedWorkerKeepsBothEntries ==
    pc \notin {"correlate"} =>
        \A i, j \in 1..Len(args.spans) :
            (i < j /\ args.spans[i].fn = args.spans[j].fn)
            => /\ Cardinality({k \in 1..Len(lambda_function_to_request_id_map) :
                      lambda_function_to_request_id_map[k].fn = args.spans[i].fn}) = 2
               /\ {args.spans[i].rid, args.spans[j].rid}
                     \subseteq Range(log_search_strategy.failed_lambda_request_ids)
                                \cup Range(log_search_strategy.other_lambda_request_ids)

\* C36: one run issues at most 4 x G + 5 filter_log_events calls, G being
\* the number of log groups in groups_to_search: at most G in tier 1,
\* 3 x G in tier 2, 3 in the case-identifier tier and 2 in the broad-fallback
\* tier.
C36_BoundedNumberOfQueries ==
    LET G == Len(groups_to_search)
    IN  /\ Len(query_log) <= 4 * G + 5
        /\ Cardinality(QueriesOfTier(1)) <= G
        /\ Cardinality(QueriesOfTier(2)) <= 3 * G
        /\ Cardinality(QueriesOfTier(4)) <= 3
        /\ Cardinality(QueriesOfTier(5)) <= 2

\* witness of C36: a run over three log groups that issued 17 queries
C36_Witness ==
    /\ Reported
    /\ Len(groups_to_search) = 3
    /\ Len(query_log) = 17
    /\ Cardinality(QueriesOfTier(2)) = 9
    /\ Cardinality(QueriesOfTier(4)) = 3
    /\ Cardinality(QueriesOfTier(5)) = 2

\* the entries of a result list count their own events and hold at least one
CountedEntries(results) ==
    \A i \in 1..Len(results) :
        /\ results[i].events_found = Len(results[i].events)
        /\ results[i].events_found >= 1

\* C37: at every point of a run, and in the returned report,
\* total_events_found is the sum of events_found over the entries of results,
\* every entry's events_found is the length of its events list, and every
\* entry holds at least one event.
C37_TotalIsSumOfEntries ==
    /\ total_events = SumEventsFound(all_results)
    /\ CountedEntries(all_results)
    /\ Reported =>
          /\ report.total_events_found = SumEventsFound(report.results)
          /\ CountedEntries(report.results)

\* witness of C37: a report of two entries, one of a document-specific search
\* that kept fewer events than the search returned
C37_Witness ==
    /\ Reported
    /\ Len(report.results) >= 2
    /\ report.total_events_found >= 2
    /\ \E i \in QueriesOfTier(4) :
          /\ query_log[i].events_added >= 1
          /\ query_log[i].events_found > query_log[i].events_added

\* the log groups that have an entry in a result list
LogGroupsOf(results) == {results[i].log_group : i \in 1..Len(results)}

\* C38: in every report, log_groups_with_events is the number of distinct
\* log groups that have an entry in results and never exceeds
\* log_groups_searched, and no log group has more than one entry in results.
C38_LogGroupsWithEventsCountsLogGroups ==
    Reported =>
        /\ report.log_groups_with_events =
               Cardinality(LogGroupsOf(report.results))
        /\ report.log_groups_with_events <= report.log_groups_searched
        /\ \A i, j \in 1..Len(report.results) :
               report.results[i].log_group = report.results[j].log_group
                   => i = j

\* C39: cloudwatch_logs queries every log group of the capped list exactly
\* once and in list order, whether or not earlier log groups returned events
\* or failed, and total_events_found is the sum of the events of all log
\* groups; when AWS_STACK_NAME is unset the error report is returned without
\* a describe_log_groups or filter_log_events call.
C39_StackSearchVisitsEveryLogGroup ==
    /\ Len(query_log) <= Len(groups_to_search)
    /\ \A i \in Queries : query_log[i].log_group = groups_to_search[i]
    /\ pc = "stack_search" => Len(query_log) = gi - 1
    /\ total_events = SumEventsFound(query_log)
    /\ (pc = "done" /\ report.returned = "stack_report")
          => /\ Len(query_log) = Len(groups_to_search)
             /\ Len(groups_to_search) <= args.max_log_groups
             /\ report.total_events_found = SumEventsFound(query_log)
    /\ args.stack_name = ""
          => /\ pc \in {"stack_env", "done"}
             /\ describe_calls = 0
             /\ query_log = <<>>
             /\ pc = "done" => /\ report.returned = "stack_name_error"
                               /\ report.events_found = 0

\* witness of C39: the first log group returned events, the query of the
\* second failed, and the third log group is queried next
C39_Witness ==
    /\ pc = "stack_search"
    /\ gi = 3
    /\ Len(query_log) = 2
    /\ query_log[1].events_found >= 1
    /\ failures.last = "permanent"
    /\ total_events >= 1

\* witness of C39: AWS_STACK_NAME is unset and the error report was returned
C39_UnsetWitness ==
    /\ pc = "done"
    /\ args.stack_name = ""
    /\ report.returned = "stack_name_error"

====
